---- MODULE Spec2Model ----
(***************************************************************************)
(* Legado rule interpreter of the Reader: rule splitting, CSS to XPath     *)
(* compilation, the step pipeline LegadoRuleParser::ParseRule over the     *)
(* XPath backend and the QuickJsEngine wrapper, the earlier pipeline       *)
(* JsRuleProcessor::ProcessRule, and template expansion.                   *)
(*                                                                         *)
(* A std::string is a sequence of one-character strings.  Positions are    *)
(* 0-based as in the C++ code; npos is -1.                                 *)
(***************************************************************************)
EXTENDS Integers, Sequences, FiniteSets, TLC

\* ------------------------------------------------------------------------
\* Bounds of the model
\* ------------------------------------------------------------------------
MaxItems == 2      \* longest result sequence the XPath backend returns
MaxRuns == 2       \* runs of the pipeline in one behaviour
MaxFrags == 3      \* fragments concatenated into a splitter input
MaxParts == 2      \* space-separated parts of a CSS selector input
MaxCalls == 3      \* calls of the engine interface in one behaviour
MaxTokens == 2     \* @-separated tokens of a JSOUP rule
MaxSources == 3    \* sources in the array given to the converter
MAX_BOOKSRC_COUNT == 2   \* capacity of the caller's book source array
MaxInstances == 2  \* JsRuleProcessor objects created in one behaviour
MaxEngines == 2    \* JsEngine objects created by Initialize in one behaviour

\* ------------------------------------------------------------------------
\* std::string helpers
\* ------------------------------------------------------------------------
npos == -1

SetMin(S) == CHOOSE m \in S : \A n \in S : m <= n

\* std::string::find(pat, from)
find(s, pat, from) ==
  LET hits == {i \in from..(Len(s) - Len(pat)) : SubSeq(s, i + 1, i + Len(pat)) = pat}
  IN IF hits = {} THEN npos ELSE SetMin(hits)

\* std::string::substr(pos, n); n is a size_t, so a negative difference
\* wraps to a count beyond any length and the rest of the string is taken
substr(s, pos, n) ==
  IF n < 0 \/ pos + n > Len(s) THEN SubSeq(s, pos + 1, Len(s))
  ELSE SubSeq(s, pos + 1, pos + n)

\* std::string::substr(pos)
substrFrom(s, pos) == SubSeq(s, pos + 1, Len(s))

RECURSIVE Flatten(_)
Flatten(ss) == IF ss = <<>> THEN <<>> ELSE Head(ss) \o Flatten(Tail(ss))

\* sequences over S of length at most n
SeqUpTo(S, n) == UNION {[1..k -> S] : k \in 0..n}

\* the markers of the rule language
AtJs == <<"@", "j", "s", ":">>
JsOpen == <<"<", "j", "s", ">">>
JsClose == <<"<", "/", "j", "s", ">">>
TplOpen == <<"{", "{">>
TplClose == <<"}", "}">>
AtCss == <<"@", "c", "s", "s", ":">>
AtJson == <<"@", "j", "s", "o", "n", ":">>
AtXPath == <<"@", "X", "P", "a", "t", "h", ":">>
AtXPathLower == <<"@", "x", "p", "a", "t", "h", ":">>
DollarDot == <<"$", ".">>
SlashSlash == <<"/", "/">>

\* ------------------------------------------------------------------------
\* The splitters
\* ------------------------------------------------------------------------

\* the splitter with the template check ahead of the script markers
ParseRule_TemplateFirst(ruleStr) ==
  LET jsPos == find(ruleStr, AtJs, 0)
      startTag == find(ruleStr, JsOpen, 0)
      endTag == find(ruleStr, JsClose, 0)
  IN IF Len(ruleStr) = 0
       THEN [xpathPart |-> <<>>, jsPart |-> <<>>, isTemplate |-> FALSE]
     ELSE IF find(ruleStr, TplOpen, 0) # npos /\ find(ruleStr, TplClose, 0) # npos
       THEN [xpathPart |-> <<>>, jsPart |-> ruleStr, isTemplate |-> TRUE]
     ELSE IF jsPos # npos
       THEN [xpathPart |-> substr(ruleStr, 0, jsPos),
             jsPart |-> substrFrom(ruleStr, jsPos + 4),
             isTemplate |-> FALSE]
     ELSE IF startTag # npos /\ endTag # npos /\ endTag > startTag
       THEN [xpathPart |-> substr(ruleStr, 0, startTag),
             jsPart |-> substr(ruleStr, startTag + 4, endTag - startTag - 4),
             isTemplate |-> FALSE]
     ELSE [xpathPart |-> ruleStr, jsPart |-> <<>>, isTemplate |-> FALSE]

\* JsRuleProcessor::ParseRule
JsRuleProcessor_ParseRule(ruleStr) ==
  LET jsPos == find(ruleStr, AtJs, 0)
      startTag == find(ruleStr, JsOpen, 0)
      endTag == find(ruleStr, JsClose, 0)
  IN IF Len(ruleStr) = 0
       THEN [xpathPart |-> <<>>, jsPart |-> <<>>, isTemplate |-> FALSE]
     ELSE IF jsPos # npos
       THEN [xpathPart |-> substr(ruleStr, 0, jsPos),
             jsPart |-> substrFrom(ruleStr, jsPos + 4),
             isTemplate |-> FALSE]
     ELSE IF startTag # npos /\ endTag # npos /\ endTag > startTag
       THEN [xpathPart |-> substr(ruleStr, 0, startTag),
             jsPart |-> substr(ruleStr, startTag + 4, endTag - startTag - 4),
             isTemplate |-> FALSE]
     ELSE IF find(ruleStr, TplOpen, 0) # npos /\ find(ruleStr, TplClose, 0) # npos
       THEN [xpathPart |-> <<>>, jsPart |-> ruleStr, isTemplate |-> TRUE]
     ELSE [xpathPart |-> ruleStr, jsPart |-> <<>>, isTemplate |-> FALSE]

\* reader::extractJsFromRule
extractJsFromRule(r) ==
  LET jsPos == find(r, AtJs, 0)
      startTag == find(r, JsOpen, 0)
      endTag == find(r, JsClose, 0)
  IN IF jsPos # npos
       THEN [found |-> TRUE, preRule |-> substr(r, 0, jsPos),
             jsCode |-> substrFrom(r, jsPos + 4)]
     ELSE IF startTag # npos /\ endTag # npos /\ endTag > startTag
       THEN [found |-> TRUE, preRule |-> substr(r, 0, startTag),
             jsCode |-> substr(r, startTag + 4, endTag - startTag - 4)]
     ELSE IF find(r, TplOpen, 0) # npos /\ find(r, TplClose, 0) # npos
       THEN [found |-> TRUE, preRule |-> <<>>, jsCode |-> r]
     ELSE [found |-> FALSE, preRule |-> <<>>, jsCode |-> <<>>]

\* the splitter looking for the <js> tags ahead of @js:
SplitRule_TagFirst(r) ==
  LET jsPos == find(r, AtJs, 0)
      jsStart == find(r, JsOpen, 0)
      jsEnd == find(r, JsClose, 0)
  IN IF jsStart # npos /\ jsEnd # npos
       THEN [baseRule |-> substr(r, 0, jsStart),
             jsRule |-> substr(r, jsStart + 4, jsEnd - jsStart - 4)]
     ELSE IF jsPos # npos
       THEN [baseRule |-> substr(r, 0, jsPos), jsRule |-> substrFrom(r, jsPos + 4)]
     ELSE [baseRule |-> r, jsRule |-> <<>>]

\* LegadoRuleParser::SplitRule
SplitRule(r) ==
  LET jsPos == find(r, AtJs, 0)
      jsStart == find(r, JsOpen, 0)
      jsEnd == find(r, JsClose, 0)
  IN IF jsPos # npos
       THEN [baseRule |-> substr(r, 0, jsPos), jsRule |-> substrFrom(r, jsPos + 4)]
     ELSE IF jsStart # npos /\ jsEnd # npos
       THEN [baseRule |-> substr(r, 0, jsStart),
             jsRule |-> substr(r, jsStart + 4, jsEnd - jsStart - 4)]
     ELSE [baseRule |-> r, jsRule |-> <<>>]

\* ------------------------------------------------------------------------
\* The CSS to XPath compiler
\* ------------------------------------------------------------------------
Q1 == "'"
Q2 == "\""

\* first position at or after pos that ends the string or holds a stop char:
\* the loops  while (pos < len && p[pos] != ...) pos++
RECURSIVE ScanEnd(_, _, _)
ScanEnd(p, pos, stops) ==
  IF pos < Len(p) /\ p[pos + 1] \notin stops THEN ScanEnd(p, pos + 1, stops) ELSE pos

at(p, pos) == IF pos < Len(p) THEN p[pos + 1] ELSE "<eos>"

\* while (iss >> part) parts.push_back(part)
RECURSIVE Words(_)
Words(s) ==
  IF s = <<>> THEN <<>>
  ELSE IF Head(s) = " " THEN Words(Tail(s))
  ELSE LET e == ScanEnd(s, 0, {" "})
       IN <<SubSeq(s, 1, e)>> \o Words(substrFrom(s, e))

TokStops == {".", "#", "["}

\* a name token read again and again while its mark follows (a loop in
\* the place of the if), keeping the last name
RECURSIVE ReadName_Repeat(_, _, _)
ReadName_Repeat(p, pos, mark) ==
  IF at(p, pos) = mark
    THEN IF at(p, ScanEnd(p, pos + 1, TokStops)) = mark
           THEN ReadName_Repeat(p, ScanEnd(p, pos + 1, TokStops), mark)
           ELSE [name |-> SubSeq(p, pos + 2, ScanEnd(p, pos + 1, TokStops)),
                 end |-> ScanEnd(p, pos + 1, TokStops)]
    ELSE [name |-> <<>>, end |-> pos]

\* if (pos < len && p[pos] == mark) { pos++; while (...) name += p[pos++]; }
ReadName(p, pos, mark) ==
  IF at(p, pos) = mark
    THEN [name |-> SubSeq(p, pos + 2, ScanEnd(p, pos + 1, TokStops)),
          end |-> ScanEnd(p, pos + 1, TokStops)]
    ELSE [name |-> <<>>, end |-> pos]

\* the value of an attribute token whose name ends at attrEnd
ReadAttrValue(p, attrEnd) ==
  IF at(p, attrEnd) = "="
    THEN IF at(p, attrEnd + 1) \in {Q1, Q2}
           THEN SubSeq(p, attrEnd + 3, ScanEnd(p, attrEnd + 2, {Q1, Q2, "]"}))
           ELSE SubSeq(p, attrEnd + 2, ScanEnd(p, attrEnd + 1, {Q1, Q2, "]"}))
    ELSE <<>>

\* if (pos < len && p[pos] == '[') { ... }
ReadAttr(p, pos) ==
  IF at(p, pos) = "["
    THEN [attr |-> SubSeq(p, pos + 2, ScanEnd(p, pos + 1, {"=", "]"})),
          attrValue |-> ReadAttrValue(p, ScanEnd(p, pos + 1, {"=", "]"}))]
    ELSE [attr |-> <<>>, attrValue |-> <<>>]

AndStr == <<" ", "a", "n", "d", " ">>

\* predicate += ...: the next term, after " and " when a term precedes it
AddTerm(predicate, present, term) ==
  IF present THEN predicate \o (IF predicate # <<>> THEN AndStr ELSE <<>>) \o term
  ELSE predicate

\* the construction of the XPath step from the parsed tokens
BuildStep(tag, className, id, a) ==
  LET predicate ==
        AddTerm(
          AddTerm(
            AddTerm(<<>>, className # <<>>,
                    <<"c","o","n","t","a","i","n","s","(","@","c","l","a","s","s",",",Q1>>
                    \o className \o <<Q1, ")">>),
            id # <<>>, <<"@", "i", "d", "=", Q1>> \o id \o <<Q1>>),
          a.attr # <<>>,
          IF a.attrValue # <<>>
            THEN <<"@">> \o a.attr \o <<"=", Q1>> \o a.attrValue \o <<Q1>>
            ELSE <<"@">> \o a.attr)
  IN tag \o (IF predicate # <<>> THEN <<"[">> \o predicate \o <<"]">> ELSE <<>>)

CssPartFromId(p, tag, className, idTok) ==
  BuildStep(tag, className, idTok.name, ReadAttr(p, idTok.end))

CssPartFromClass(p, tag, classTok) ==
  CssPartFromId(p, tag, classTok.name, ReadName(p, classTok.end, "#"))

CssPartFromTag(p, tagEnd) ==
  CssPartFromClass(p, IF tagEnd = 0 THEN <<"*">> ELSE SubSeq(p, 1, tagEnd),
                   ReadName(p, tagEnd, "."))

\* the body of the loop over parts, after  xpath += "/"
CssPart(p) == CssPartFromTag(p, ScanEnd(p, 0, TokStops))

\* xpath += "/" before each part
PartSep == <<"/">>

RECURSIVE CssParts(_)
CssParts(parts) ==
  IF parts = <<>> THEN <<>>
  ELSE PartSep \o CssPart(Head(parts)) \o CssParts(Tail(parts))

\* the attribute extraction suffix
AttrExtractSuffix(attrExtract) ==
  IF attrExtract = <<>> THEN <<>>
  ELSE IF attrExtract = <<"t", "e", "x", "t">> THEN <<"/", "t", "e", "x", "t", "(", ")">>
  ELSE IF attrExtract = <<"h", "t", "m", "l">>
          \/ attrExtract = <<"i", "n", "n", "e", "r", "H", "t", "m", "l">> THEN <<>>
  ELSE <<"/", "@">> \o attrExtract

\* LegadoRuleParser::CssToXPath
CssToXPath(css) ==
  LET atPos == find(css, <<"@">>, 0)
      cut == atPos # npos /\ atPos > 0
      attrExtract == IF cut THEN substrFrom(css, atPos + 1) ELSE <<>>
      selector == IF cut THEN substr(css, 0, atPos) ELSE css
  IN <<"/">> \o CssParts(Words(selector)) \o AttrExtractSuffix(attrExtract)

\* ------------------------------------------------------------------------
\* The script engine (QuickJS behind QuickJsEngine)
\* ------------------------------------------------------------------------

\* scripts whose behaviour the model interprets; any other code is a
\* reference to an undefined identifier and throws
ScrResult == <<"r">>             \* result
ScrAppend == <<"r", "+", "1">>   \* result + 1
ScrThrowB == <<"x">>             \* throws when result is "B", else result + 1
ScrEmpty == <<"e">>              \* the empty string
ScrSum == <<"1", "+", "1">>      \* 1 + 1
ScrBraces == <<"b">>             \* the string {{1+1}}
ScrUndefined == <<"z">>          \* an undefined identifier
ScrTrim == <<"r", ".", "t">>     \* result.trim()

ErrNone == ""
ErrNoContext == "JS context not initialized"
\* the text of the exceptions scripts raise, and the messages
\* QuickJsEngine::eval records for them
ExcSyntax == "SyntaxError"
ExcReference == "ReferenceError"
ExcThrown == "thrown"
ErrSyntax == "JS Error: " \o ExcSyntax
ErrReference == "JS Error: " \o ExcReference
ErrThrown == "JS Error: " \o ExcThrown
ErrCssConvert == "Failed to convert CSS to XPath"

VarResultPrefix ==
  <<"v", "a", "r", " ", "r", "e", "s", "u", "l", "t", " ", "=", " ", Q2>>
JsonParsePrefix ==
  <<"v", "a", "r", " ", "d", "a", "t", "a", " ", "=", " ", "J", "S", "O", "N", ".",
    "p", "a", "r", "s", "e", "(", "r", "e", "s", "u", "l", "t", ")", ";", " ",
    "d", "a", "t", "a", ".">>

HasPrefix(s, pre) == Len(s) >= Len(pre) /\ SubSeq(s, 1, Len(pre)) = pre

\* the documents JSON.parse accepts, and the projection of a dotted path
\* JsonDoc stands for the object {"n":"v"}, JsonArr for the array
\* [{"n":"  T  "}], whose own properties do not include n
JsonDoc == <<"{", "n", "}">>
JsonArr == <<"[", "{", "n", "}", "]">>
JsonDocs == {JsonDoc, JsonArr}
PaddedT == <<" ", " ", "T", " ", " ">>
JsonGet(doc, path) ==
  IF doc = JsonDoc /\ path = <<"n">> THEN [def |-> TRUE, val |-> <<"v">>]
  ELSE [def |-> FALSE, val |-> <<>>]

\* String.prototype.trim
RECURSIVE TrimLeft(_)
TrimLeft(v) == IF v # <<>> /\ Head(v) = " " THEN TrimLeft(Tail(v)) ELSE v
RECURSIVE TrimRight(_)
TrimRight(v) ==
  IF v # <<>> /\ v[Len(v)] = " " THEN TrimRight(SubSeq(v, 1, Len(v) - 1)) ELSE v
Trim(v) == TrimRight(TrimLeft(v))

\* the parser's reading of a double-quoted string literal whose opening
\* quote was consumed: the value, and the text after the closing quote
RECURSIVE ReadStringLiteral(_, _)
ReadStringLiteral(s, acc) ==
  IF s = <<>> THEN [ok |-> FALSE, lit |-> acc, rest |-> <<>>]
  ELSE IF Head(s) = Q2 THEN [ok |-> TRUE, lit |-> acc, rest |-> Tail(s)]
  ELSE IF Head(s) \in {"\n", "\r"} THEN [ok |-> FALSE, lit |-> acc, rest |-> s]
  ELSE IF Head(s) = "\\"
    THEN IF Len(s) < 2 THEN [ok |-> FALSE, lit |-> acc, rest |-> <<>>]
         ELSE LET c == s[2]
                  d == IF c = "n" THEN "\n" ELSE IF c = "r" THEN "\r"
                       ELSE IF c = "t" THEN "\t" ELSE c
              IN ReadStringLiteral(SubSeq(s, 3, Len(s)), Append(acc, d))
  ELSE ReadStringLiteral(Tail(s), Append(acc, Head(s)))

Undef == [def |-> FALSE, val |-> <<>>]
Str(v) == [def |-> TRUE, val |-> v]

\* JS_Eval in global scope: exc when an exception is thrown, otherwise the
\* completion value and the global variable result afterwards
JS_Eval(code, res) ==
  IF code = <<>>
    THEN [exc |-> FALSE, msg |-> ErrNone, val |-> Undef, res |-> res]
  ELSE IF HasPrefix(code, VarResultPrefix)
    THEN LET r == ReadStringLiteral(substrFrom(code, Len(VarResultPrefix)), <<>>)
         IN IF r.ok /\ r.rest = <<";">>
              THEN [exc |-> FALSE, msg |-> ErrNone, val |-> Undef, res |-> Str(r.lit)]
              ELSE [exc |-> TRUE, msg |-> ExcSyntax, val |-> Undef, res |-> res]
  ELSE IF HasPrefix(code, JsonParsePrefix)
    THEN IF res.def /\ res.val \in JsonDocs
           THEN [exc |-> FALSE, msg |-> ErrNone,
                 val |-> JsonGet(res.val, substrFrom(code, Len(JsonParsePrefix))),
                 res |-> res]
           ELSE [exc |-> TRUE, msg |-> ExcSyntax, val |-> Undef, res |-> res]
  ELSE IF code \in {ScrResult, ScrAppend, ScrThrowB, ScrTrim} /\ ~res.def
    THEN [exc |-> TRUE, msg |-> ExcReference, val |-> Undef, res |-> res]
  ELSE IF code = ScrResult
    THEN [exc |-> FALSE, msg |-> ErrNone, val |-> res, res |-> res]
  ELSE IF code = ScrAppend
    THEN [exc |-> FALSE, msg |-> ErrNone, val |-> Str(res.val \o <<"1">>), res |-> res]
  ELSE IF code = ScrThrowB
    THEN IF res.val = <<"B">>
           THEN [exc |-> TRUE, msg |-> ExcThrown, val |-> Undef, res |-> res]
           ELSE [exc |-> FALSE, msg |-> ErrNone, val |-> Str(res.val \o <<"1">>), res |-> res]
  ELSE IF code = ScrTrim
    THEN [exc |-> FALSE, msg |-> ErrNone, val |-> Str(Trim(res.val)), res |-> res]
  ELSE IF code = ScrEmpty
    THEN [exc |-> FALSE, msg |-> ErrNone, val |-> Str(<<>>), res |-> res]
  ELSE IF code = ScrSum
    THEN [exc |-> FALSE, msg |-> ErrNone, val |-> Str(<<"2">>), res |-> res]
  ELSE IF code = ScrBraces
    THEN [exc |-> FALSE, msg |-> ErrNone,
          val |-> Str(TplOpen \o ScrSum \o TplClose), res |-> res]
  ELSE [exc |-> TRUE, msg |-> ExcReference, val |-> Undef, res |-> res]

\* scripts that call the host object java
ScrPutV == <<"p", "v">>          \* java.put("k", "v")
ScrPutW == <<"p", "w">>          \* java.put("k", "w")
ScrGet == <<"g">>                \* java.get("k")
ScrGlobalK == <<"k">>            \* the global variable k
ScrAjax1 == <<"j", "1">>         \* java.ajax("1")
ScrAjax2 == <<"j", "2">>         \* java.ajax("2")
ScrPost1 == <<"o", "1">>         \* java.post("1", "b", {})
ScrPost2 == <<"o", "2">>         \* java.post("2", "b", {})

\* the keys of m_variables the model follows
Keys == {"k"}
NoVariables == [k \in Keys |-> Undef]

VarKPrefix == <<"v", "a", "r", " ", "k", " ", "=", " ", Q2>>

\* the callbacks a caller may set: none, one that answers with its
\* arguments, one that answers with a constant
CbNone == "none"
CbEcho == "echo"
CbConst == "const"
CallbackReply(cb, method, url, body) ==
  IF cb = CbEcho THEN <<method>> \o url \o body ELSE <<"R">>

MockGet == <<"m", "o", "c", "k", " ", "r", "e", "s", "p", "o", "n", "s", "e">>
MockPost == <<"m", "o", "c", "k", " ", "p", "o", "s", "t", " ", "r", "e", "s", "p",
              "o", "n", "s", "e">>

\* js_java_ajax without callback answering with its argument
MockAjaxReply_Echo(url) == url

\* the else branch of js_java_ajax
MockAjaxReply(url) == MockGet

\* the else branch of js_java_post
MockPostReply(url, body) == MockPost

\* QuickJsEngine::js_java_ajax
js_java_ajax(e, url) ==
  IF e.m_httpCallback # CbNone THEN CallbackReply(e.m_httpCallback, "G", url, <<>>)
  ELSE MockAjaxReply(url)

\* QuickJsEngine::js_java_post
js_java_post(e, url, body) ==
  IF e.m_httpCallback # CbNone THEN CallbackReply(e.m_httpCallback, "P", url, body)
  ELSE MockPostReply(url, body)

\* java.get reading nothing
getVariable_Forgetful(m, k) == <<>>

\* QuickJsEngine::getVariable
getVariable(m, k) == IF m[k].def THEN m[k].val ELSE <<>>

\* the outcome of a script that returns val and leaves the host state alone
HostValue(e, val) ==
  [exc |-> FALSE, msg |-> ErrNone, val |-> Str(val), res |-> e.result,
   m_variables |-> e.m_variables, globals |-> e.globals]

HostOf(e, r) ==
  [exc |-> r.exc, msg |-> r.msg, val |-> r.val, res |-> r.res,
   m_variables |-> e.m_variables, globals |-> e.globals]

\* var k = "...";
JS_EvalVarK(e, r) ==
  IF r.ok /\ r.rest = <<";">>
    THEN [exc |-> FALSE, msg |-> ErrNone, val |-> Undef, res |-> e.result,
          m_variables |-> e.m_variables,
          globals |-> [e.globals EXCEPT !["k"] = Str(r.lit)]]
  ELSE [exc |-> TRUE, msg |-> ExcSyntax, val |-> Undef, res |-> e.result,
        m_variables |-> e.m_variables, globals |-> e.globals]

\* JS_Eval on the context of engine e, the host object java included: the
\* outcome of JS_Eval, m_variables and the global variables afterwards
JS_EvalHost(code, e) ==
  IF HasPrefix(code, VarKPrefix)
    THEN JS_EvalVarK(e, ReadStringLiteral(substrFrom(code, Len(VarKPrefix)), <<>>))
  ELSE IF code \in {ScrPutV, ScrPutW}
    THEN [exc |-> FALSE, msg |-> ErrNone, val |-> Undef, res |-> e.result,
          m_variables |-> [e.m_variables EXCEPT !["k"] = Str(<<code[2]>>)],
          globals |-> e.globals]
  ELSE IF code = ScrGet THEN HostValue(e, getVariable(e.m_variables, "k"))
  ELSE IF code = ScrGlobalK
    THEN IF e.globals["k"].def THEN HostValue(e, e.globals["k"].val)
         ELSE HostOf(e, [exc |-> TRUE, msg |-> ExcReference, val |-> Undef,
                         res |-> e.result])
  ELSE IF code \in {ScrAjax1, ScrAjax2} THEN HostValue(e, js_java_ajax(e, <<code[2]>>))
  ELSE IF code \in {ScrPost1, ScrPost2}
    THEN HostValue(e, js_java_post(e, <<code[2]>>, <<"b">>))
  ELSE HostOf(e, JS_Eval(code, e.result))

\* QuickJsEngine::jsValueToString
jsValueToString(v) == IF v.def THEN v.val ELSE <<>>

\* eval entered without clearing the error state
clearError_Keep(e) == e

\* QuickJsEngine::clearError
clearError(e) == [e EXCEPT !.m_hasError = FALSE, !.m_lastError = ErrNone]

\* QuickJsEngine::setError
setError(e, error) == [e EXCEPT !.m_hasError = TRUE, !.m_lastError = error]

\* QuickJsEngine::eval after clearError(); ran tells whether JS_Eval was
\* reached
evalCleared(e, code) ==
  IF ~e.m_context
    THEN [eng |-> setError(e, ErrNoContext), val |-> <<>>, ran |-> FALSE]
  ELSE LET r == JS_EvalHost(code, e)
       IN IF r.exc
            THEN [eng |-> setError(e, "JS Error: " \o r.msg),
                  val |-> <<>>, ran |-> TRUE]
            ELSE [eng |-> [e EXCEPT !.result = r.res,
                                    !.m_variables = r.m_variables,
                                    !.globals = r.globals],
                  val |-> jsValueToString(r.val), ran |-> TRUE]

\* QuickJsEngine::eval on the engine state e
eval(e, code) == evalCleared(clearError(e), code)

\* setResult without the escaping switch
EscapeChar_None(c) == <<c>>

\* the switch of QuickJsEngine::setResult
EscapeChar(c) ==
  IF c = "\\" THEN <<"\\", "\\">>
  ELSE IF c = Q2 THEN <<"\\", Q2>>
  ELSE IF c = "\n" THEN <<"\\", "n">>
  ELSE IF c = "\r" THEN <<"\\", "r">>
  ELSE IF c = "\t" THEN <<"\\", "t">>
  ELSE <<c>>

RECURSIVE Escape(_)
Escape(v) == IF v = <<>> THEN <<>> ELSE EscapeChar(Head(v)) \o Escape(Tail(v))

\* QuickJsEngine::setResult
setResult(e, v) == eval(e, VarResultPrefix \o Escape(v) \o <<Q2, ";">>).eng

\* QuickJsEngine::setVariable("k", v)
setVariable(e, v) ==
  eval([e EXCEPT !.m_variables["k"] = Str(v)], VarKPrefix \o v \o <<Q2, ";">>).eng

\* QuickJsEngine::setHttpCallback
setHttpCallback(e, cb) == [e EXCEPT !.m_httpCallback = cb]

\* the text between the braces of the span opened at start and closed at
\* endp, braces included
SpanExpr_WithBraces(t, start, endp) == substr(t, start, endp - start + 2)

\* templateStr.substr(start + 2, end - start - 2)
SpanExpr(t, start, endp) == substr(t, start + 2, endp - start - 2)

\* QuickJsEngine::processTemplate from position pos on, with the text
\* accumulated in output: the engine afterwards, the string returned and the
\* expressions evaluated
RECURSIVE processTemplateFrom(_, _, _, _, _)
processTemplateValue(t, output, log, endp, expr, r) ==
  processTemplateFrom(r.eng, t, endp + 2, output \o r.val,
                      Append(log, [expr |-> expr, val |-> r.val,
                                   failed |-> r.eng.m_hasError]))

processTemplateClose(e, t, output, log, start, endp) ==
  IF endp = npos
    THEN [eng |-> e, out |-> output \o substrFrom(t, start), log |-> log]
  ELSE processTemplateValue(t, output, log, endp, SpanExpr(t, start, endp),
                            eval(e, SpanExpr(t, start, endp)))

processTemplateOpen(e, t, pos, output, log, start) ==
  IF start = npos
    THEN [eng |-> e, out |-> output \o substrFrom(t, pos), log |-> log]
  ELSE processTemplateClose(e, t, output \o substr(t, pos, start - pos), log,
                            start, find(t, TplClose, start))

processTemplateFrom(e, t, pos, output, log) ==
  IF pos >= Len(t) THEN [eng |-> e, out |-> output, log |-> log]
  ELSE processTemplateOpen(e, t, pos, output, log, find(t, TplOpen, pos))

\* QuickJsEngine::processTemplate
processTemplate(e, templateStr) ==
  processTemplateFrom(e, templateStr, 0, <<>>, <<>>)

\* LegadoRuleParser::ContainsJs
LegadoRuleParser_ContainsJs(r) ==
  \/ find(r, AtJs, 0) # npos
  \/ find(r, JsOpen, 0) # npos
  \/ (find(r, TplOpen, 0) # npos /\ find(r, TplClose, 0) # npos)

\* QuickJsEngine::containsJs
containsJs(r) ==
  find(r, AtJs, 0) # npos \/ find(r, JsOpen, 0) # npos \/ find(r, TplOpen, 0) # npos

\* reader::ruleContainsJs
ruleContainsJs(r) ==
  \/ find(r, AtJs, 0) # npos
  \/ find(r, JsOpen, 0) # npos
  \/ (find(r, TplOpen, 0) # npos /\ find(r, TplClose, 0) # npos)

\* the code QuickJsEngine::processRule takes from the <js> tags
processRuleTagCode(r, start, endp) ==
  IF endp # npos THEN substr(r, start, endp - start) ELSE <<>>

processRuleEval(r, code) ==
  [eng |-> r.eng, val |-> r.val, path |-> "js", code |-> <<code>>]

processRuleTemplate(r) ==
  [eng |-> r.eng, val |-> r.out, path |-> "template", code |-> <<>>]

\* processRule binding result also when it is empty
BindResult_Always(e, result) == setResult(e, result)

\* if (!result.empty()) setResult(result);
BindResult(e, result) == IF result # <<>> THEN setResult(e, result) ELSE e

\* QuickJsEngine::processRule after result was bound
processRuleOn(e, r) ==
  IF substr(r, 0, 4) = AtJs
    THEN processRuleEval(eval(e, substrFrom(r, 4)), substrFrom(r, 4))
  ELSE IF find(r, JsOpen, 0) # npos
    THEN processRuleEval(
           eval(e, processRuleTagCode(r, find(r, JsOpen, 0) + 4, find(r, JsClose, 0))),
           processRuleTagCode(r, find(r, JsOpen, 0) + 4, find(r, JsClose, 0)))
  ELSE IF find(r, TplOpen, 0) # npos
    THEN processRuleTemplate(processTemplate(e, r))
  ELSE [eng |-> e, val |-> r, path |-> "plain", code |-> <<>>]

\* QuickJsEngine::processRule: the engine afterwards, the string returned,
\* the branch taken and the code evaluated by the script branch
processRule(e, r, result) ==
  IF r = <<>> THEN [eng |-> e, val |-> result, path |-> "empty", code |-> <<>>]
  ELSE processRuleOn(BindResult(e, result), r)

\* evaluate_js of the test harness on a context whose global variable result
\* is res: the string returned and the variable afterwards
evaluate_js(res, code, result_var) ==
  LET r == JS_Eval(code, IF result_var # <<>> THEN Str(result_var) ELSE res)
  IN [val |-> IF r.exc THEN <<>>
              ELSE IF r.val.def THEN r.val.val
              ELSE <<"u", "n", "d", "e", "f", "i", "n", "e", "d">>,
      res |-> r.res, failed |-> r.exc]

\* ------------------------------------------------------------------------
\* reader::JsEngine and JsRuleProcessor
\* ------------------------------------------------------------------------
ErrEngineNotInit == "Engine not initialized"
ErrJsNotInit == "JS engine not initialized"
ErrCreateRuntime == "Failed to create JS runtime"

\* the JsEngine: m_initialized, m_lastError and the script global variable
\* result; NoJsEngine stands for m_engine == nullptr
NoJsEngine == [m_initialized |-> FALSE, m_lastError |-> ErrNone, result |-> Undef]
NewJsEngine == [m_initialized |-> TRUE, m_lastError |-> ErrNone, result |-> Undef]

\* JsEngine::setVariable("result", v)
JsEngine_setVariable(e, v) ==
  IF ~e.m_initialized THEN e ELSE [e EXCEPT !.result = Str(v)]

KwVar == <<"v", "a", "r", " ">>
KwLet == <<"l", "e", "t", " ">>
KwConst == <<"c", "o", "n", "s", "t", " ">>
KwFunction == <<"f", "u", "n", "c", "t", "i", "o", "n">>

\* the test of JsEngine::evaluate for code to be wrapped in parentheses
IsBareExpression(code) ==
  /\ find(code, <<";">>, 0) = npos
  /\ find(code, KwVar, 0) # 0 /\ find(code, KwLet, 0) # 0
  /\ find(code, KwConst, 0) # 0 /\ find(code, KwFunction, 0) # 0

\* JS_Eval of "(" + code + ")": the value of the expression; "()" is a
\* syntax error
JS_EvalWrapped(code, res) ==
  IF code = <<>> THEN [exc |-> TRUE, msg |-> ExcSyntax, val |-> Undef, res |-> res]
  ELSE JS_Eval(code, res)

JsEngine_evaluateOf(e, r) ==
  IF r.exc THEN [eng |-> [e EXCEPT !.m_lastError = r.msg], val |-> <<>>,
                 failed |-> TRUE]
  ELSE [eng |-> [e EXCEPT !.result = r.res], val |-> jsValueToString(r.val),
        failed |-> FALSE]

\* JsEngine::evaluate: the engine afterwards, the string returned and whether
\* the evaluation failed
JsEngine_evaluate(e, code) ==
  IF ~e.m_initialized
    THEN [eng |-> [e EXCEPT !.m_lastError = ErrEngineNotInit], val |-> <<>>,
          failed |-> TRUE]
  ELSE JsEngine_evaluateOf(e, IF IsBareExpression(code)
                                THEN JS_EvalWrapped(code, e.result)
                                ELSE JS_Eval(code, e.result))

\* The processor p: its engine eng and its m_lastError.
ExecuteJsOf(p, input, r) ==
  [p |-> [eng |-> r.eng,
          m_lastError |-> IF r.val = <<>> /\ r.eng.m_lastError # ErrNone
                            THEN r.eng.m_lastError ELSE p.m_lastError],
   val |-> r.val, input |-> input, failed |-> r.failed]

\* JsRuleProcessor::ExecuteJs
ExecuteJs(p, code, input) ==
  IF ~p.eng.m_initialized
    THEN [p |-> [p EXCEPT !.m_lastError = ErrJsNotInit], val |-> <<>>,
          input |-> input, failed |-> TRUE]
  ELSE ExecuteJsOf(p, input, JsEngine_evaluate(JsEngine_setVariable(p.eng, input), code))

\* expr.find("@css:") == 0 || expr.find("@XPath:") == 0
SelectorSpan(expr) == find(expr, AtCss, 0) = 0 \/ find(expr, AtXPath, 0) = 0

\* the loop of JsRuleProcessor::EvaluateTemplate from position pos on
RECURSIVE EvaluateTemplateFrom(_, _, _, _, _)
EvaluateTemplateValue(t, output, log, endp, expr, r) ==
  EvaluateTemplateFrom(r.eng, t, endp + 2, output \o r.val,
                       Append(log, [expr |-> expr, val |-> r.val,
                                    failed |-> r.failed]))

EvaluateTemplateSpan(e, t, output, log, endp, expr) ==
  IF SelectorSpan(expr)
    THEN EvaluateTemplateFrom(e, t, endp + 2, output \o TplOpen \o expr \o TplClose, log)
  ELSE EvaluateTemplateValue(t, output, log, endp, expr, JsEngine_evaluate(e, expr))

EvaluateTemplateClose(e, t, output, log, start, endp) ==
  IF endp = npos
    THEN [eng |-> e, out |-> output \o substrFrom(t, start), log |-> log]
  ELSE EvaluateTemplateSpan(e, t, output, log, endp, SpanExpr(t, start, endp))

EvaluateTemplateOpen(e, t, pos, output, log, start) ==
  IF start = npos
    THEN [eng |-> e, out |-> output \o substrFrom(t, pos), log |-> log]
  ELSE EvaluateTemplateClose(e, t, output \o substr(t, pos, start - pos), log,
                             start, find(t, TplClose, start + 2))

EvaluateTemplateFrom(e, t, pos, output, log) ==
  IF pos >= Len(t) THEN [eng |-> e, out |-> output, log |-> log]
  ELSE EvaluateTemplateOpen(e, t, pos, output, log, find(t, TplOpen, pos))

EvaluateTemplateOf(p, r) ==
  [p |-> [p EXCEPT !.eng = r.eng], out |-> r.out, log |-> r.log]

\* JsRuleProcessor::EvaluateTemplate
EvaluateTemplate(p, templateStr, result) ==
  IF ~p.eng.m_initialized
    THEN [p |-> [p EXCEPT !.m_lastError = ErrJsNotInit], out |-> templateStr,
          log |-> <<>>]
  ELSE EvaluateTemplateOf(p, EvaluateTemplateFrom(JsEngine_setVariable(p.eng, result),
                                                  templateStr, 0, <<>>, <<>>))

\* ------------------------------------------------------------------------
\* LegadoConverter: rules to XPath
\* ------------------------------------------------------------------------
HashHash == <<"#", "#">>
KwClass == <<"c", "l", "a", "s", "s">>
KwId == <<"i", "d">>
KwTag == <<"t", "a", "g">>
KwText == <<"t", "e", "x", "t">>
KwHref == <<"h", "r", "e", "f">>
KwSrc == <<"s", "r", "c">>
KwHtml == <<"h", "t", "m", "l">>
KwAll == <<"a", "l", "l">>
KwContent == <<"c", "o", "n", "t", "e", "n", "t">>
XpText == <<"/", "t", "e", "x", "t", "(", ")">>
XpHref == <<"/", "@", "h", "r", "e", "f">>
XpSrc == <<"/", "@", "s", "r", "c">>
XpContent == <<"/", "@", "c", "o", "n", "t", "e", "n", "t">>
XpClassEq == <<"*", "[", "@", "c", "l", "a", "s", "s", "=", "'">>
XpIdEq == <<"*", "[", "@", "i", "d", "=", "'">>
XpClassContains ==
  <<"*", "[", "c", "o", "n", "t", "a", "i", "n", "s", "(", "@", "c", "l", "a",
    "s", "s", ",", "'">>
XpQuoteClose == <<"'", "]">>
XpQuoteParenClose == <<"'", ")", "]">>

\* strstr(s, pat) != NULL
strstr(s, pat) == find(s, pat, 0) # npos

\* longest {{...}} body contains_js lets through as a simple variable
SimpleVarLen == 10

\* contains_js
contains_js(r) ==
  IF r = <<>> THEN FALSE
  ELSE IF strstr(r, AtJs) THEN TRUE
  ELSE IF strstr(r, JsOpen) THEN TRUE
  ELSE /\ strstr(r, TplOpen) /\ strstr(r, TplClose)
       /\ find(r, TplClose, 0) > find(r, TplOpen, 0)
       /\ find(r, TplClose, 0) - find(r, TplOpen, 0) - 2 > SimpleVarLen

is_xpath_rule(r) ==
  r # <<>> /\ (HasPrefix(r, SlashSlash) \/ HasPrefix(r, AtXPath)
               \/ HasPrefix(r, AtXPathLower))

is_jsonpath_rule(r) == r # <<>> /\ (HasPrefix(r, DollarDot) \/ HasPrefix(r, AtJson))

is_css_rule(r) == r # <<>> /\ HasPrefix(r, AtCss)

\* strtok_s(s, "@"): the non-empty runs of characters between @ signs
RECURSIVE strtok(_)
strtok(s) ==
  IF s = <<>> THEN <<>>
  ELSE IF Head(s) = "@" THEN strtok(Tail(s))
  ELSE LET e == ScanEnd(s, 0, {"@"})
       IN <<SubSeq(s, 1, e)>> \o strtok(substrFrom(s, e))

\* the type.name.index reading of one token
JsoupFields(token) ==
  LET dot1 == find(token, <<".">>, 0)
      dot2 == IF dot1 = npos THEN npos ELSE find(token, <<".">>, dot1 + 1)
  IN IF dot1 = npos THEN [type |-> token, name |-> <<>>, index |-> <<>>]
     ELSE IF dot2 = npos
       THEN [type |-> SubSeq(token, 1, dot1), name |-> substrFrom(token, dot1 + 1),
             index |-> <<>>]
     ELSE [type |-> SubSeq(token, 1, dot1),
           name |-> SubSeq(token, dot1 + 2, dot2),
           index |-> substrFrom(token, dot2 + 1)]

\* [index] when the token has an index
JsoupIndex(index) ==
  IF index = <<>> THEN <<>> ELSE <<"[">> \o index \o <<"]">>

\* what one token appends to temp
JsoupToken(f, first) ==
  IF f.type = KwClass
    THEN XpClassEq \o f.name \o XpQuoteClose \o JsoupIndex(f.index)
  ELSE IF f.type = KwId THEN XpIdEq \o f.name \o XpQuoteClose
  ELSE IF f.type = KwTag
    THEN (IF first THEN <<>> ELSE SlashSlash) \o f.name \o JsoupIndex(f.index)
  ELSE IF f.type = KwText THEN XpText
  ELSE IF f.type = KwHref THEN XpHref
  ELSE IF f.type = KwSrc THEN XpSrc
  ELSE <<>>

RECURSIVE JsoupTokens(_, _)
JsoupTokens(tokens, first) ==
  IF tokens = <<>> THEN <<>>
  ELSE JsoupToken(JsoupFields(Head(tokens)), first) \o JsoupTokens(Tail(tokens), FALSE)

\* convert_jsoup_to_xpath: the return value and xpath_out
convert_jsoup_to_xpath(jsoup_rule, xpath_out) ==
  LET temp == SlashSlash \o JsoupTokens(strtok(jsoup_rule), TRUE)
  IN IF Len(temp) > 2 THEN [ret |-> TRUE, xpath_out |-> temp]
     ELSE [ret |-> FALSE, xpath_out |-> xpath_out]

\* convert_jsonpath_to_xpath
RECURSIVE DotsToSlashes(_)
DotsToSlashes(s) ==
  IF s = <<>> THEN <<>>
  ELSE <<IF Head(s) = "." THEN "/" ELSE Head(s)>> \o DotsToSlashes(Tail(s))

convert_jsonpath_to_xpath(json_rule) ==
  LET s1 == IF HasPrefix(json_rule, AtJson) THEN substrFrom(json_rule, 6) ELSE json_rule
      s2 == IF HasPrefix(s1, DollarDot) THEN substrFrom(s1, 1) ELSE s1
  IN [ret |-> TRUE, xpath_out |-> <<"/">> \o DotsToSlashes(s2)]

\* the @css: branch of convert_legado_rule_to_xpath
CssAttrSuffix(attr) ==
  IF attr = KwText THEN XpText
  ELSE IF attr = KwHref THEN XpHref
  ELSE IF attr = KwSrc THEN XpSrc
  ELSE IF attr = KwContent THEN XpContent
  ELSE <<>>

convert_css_rule(rule_copy, xpath_out) ==
  LET css == substrFrom(rule_copy, 5)
      sep == find(css, <<"@">>, 0)
      sel == SubSeq(css, 1, sep)
      attr == substrFrom(css, sep + 1)
      temp == IF at(sel, 0) = "#"
                THEN SlashSlash \o XpIdEq \o Tail(sel) \o XpQuoteClose
              ELSE IF at(sel, 0) = "."
                THEN SlashSlash \o XpClassContains \o Tail(sel) \o XpQuoteParenClose
              ELSE SlashSlash \o sel
  IN IF sep = npos THEN [ret |-> FALSE, xpath_out |-> xpath_out]
     ELSE [ret |-> TRUE, xpath_out |-> temp \o CssAttrSuffix(attr)]

\* the rule up to its first ## (the regex part is cut off)
CutRegex(r) ==
  IF find(r, HashHash, 0) = npos THEN r ELSE SubSeq(r, 1, find(r, HashHash, 0))

convert_rule_copy(rule_copy, xpath_out) ==
  IF is_xpath_rule(rule_copy)
    THEN [ret |-> TRUE,
          xpath_out |-> IF HasPrefix(rule_copy, AtXPath) \/ HasPrefix(rule_copy, AtXPathLower)
                          THEN substrFrom(rule_copy, 7) ELSE rule_copy]
  ELSE IF is_jsonpath_rule(rule_copy) THEN convert_jsonpath_to_xpath(rule_copy)
  ELSE IF is_css_rule(rule_copy) THEN convert_css_rule(rule_copy, xpath_out)
  ELSE IF strstr(rule_copy, <<"@">>) \/ strstr(rule_copy, <<".">>)
    THEN convert_jsoup_to_xpath(rule_copy, xpath_out)
  ELSE [ret |-> TRUE, xpath_out |-> rule_copy]

\* the JS check of convert_legado_rule_to_xpath
RejectsJs_Never(legado_rule) == FALSE
RejectsJs(legado_rule) == contains_js(legado_rule)

\* convert_legado_rule_to_xpath (legado_rule and xpath_out not NULL): the
\* return value and the buffer xpath_out, which a failure leaves as it was
convert_legado_rule_to_xpath(legado_rule, xpath_out) ==
  IF legado_rule = <<>> THEN [ret |-> TRUE, xpath_out |-> <<>>]
  ELSE IF RejectsJs(legado_rule) THEN [ret |-> FALSE, xpath_out |-> xpath_out]
  ELSE convert_rule_copy(CutRegex(legado_rule), xpath_out)

\* ------------------------------------------------------------------------
\* LegadoConverter: book sources
\* ------------------------------------------------------------------------
\* book_source_t after memset: the title, the host and the XPath fields with
\* their enable flags (the query fields and the content filter are written
\* from searchUrl and replaceRegex only and hold no rule)
ZeroBookSource ==
  [title |-> <<>>, host |-> <<>>,
   book_name_xpath |-> <<>>, book_mainpage_xpath |-> <<>>,
   book_author_xpath |-> <<>>, chapter_title_xpath |-> <<>>,
   chapter_url_xpath |-> <<>>,
   enable_chapter_next |-> 0, chapter_next_url_xpath |-> <<>>,
   content_xpath |-> <<>>,
   enable_content_next |-> 0, content_next_url_xpath |-> <<>>,
   enable_chapter_page |-> 0, chapter_page_xpath |-> <<>>]

XPathFields ==
  {"book_name_xpath", "book_mainpage_xpath", "book_author_xpath",
   "chapter_title_xpath", "chapter_url_xpath", "chapter_next_url_xpath",
   "content_xpath", "content_next_url_xpath", "chapter_page_xpath"}

\* a mandatory rule:  if (r && r->valuestring)
\*                      if (!convert_legado_rule_to_xpath(...)) return FALSE;
MandatoryRule(st, r, field) ==
  IF ~st.ret \/ ~r.def THEN st
  ELSE LET c == convert_legado_rule_to_xpath(r.val, st.bs[field])
       IN [ret |-> c.ret, bs |-> [st.bs EXCEPT ![field] = c.xpath_out]]

\* the flag of an optional rule after its conversion
EnableFlag(converted) == IF converted THEN 1 ELSE 0

\* an optional rule:  if (r && r->valuestring && strlen(r->valuestring) > 0)
\*                    { flag = 1; if (!convert(...)) flag = 0; }
OptionalRule(st, r, field, flag) ==
  IF ~st.ret \/ ~r.def \/ r.val = <<>> THEN st
  ELSE LET c == convert_legado_rule_to_xpath(r.val, st.bs[field])
       IN [ret |-> TRUE,
           bs |-> [st.bs EXCEPT ![field] = c.xpath_out,
                                ![flag] = EnableFlag(c.ret)]]

\* the rule of the chapter title: chapterName, or chapterList without it
ChapterTitleRule(source) ==
  IF source.chapterName.def THEN source.chapterName ELSE source.chapterList

ConvertRuleContent(st, source) ==
  OptionalRule(
    OptionalRule(MandatoryRule(st, source.content, "content_xpath"),
                 source.nextContentUrl, "content_next_url_xpath",
                 "enable_content_next"),
    source.tocUrl, "chapter_page_xpath", "enable_chapter_page")

ConvertRuleToc(st, source) ==
  ConvertRuleContent(
    OptionalRule(
      MandatoryRule(
        MandatoryRule(st, ChapterTitleRule(source), "chapter_title_xpath"),
        source.chapterUrl, "chapter_url_xpath"),
      source.nextTocUrl, "chapter_next_url_xpath", "enable_chapter_next"),
    source)

ConvertRuleSearch(st, source) ==
  ConvertRuleToc(
    MandatoryRule(
      MandatoryRule(
        MandatoryRule(st, source.name, "book_name_xpath"),
        source.bookUrl, "book_mainpage_xpath"),
      source.author, "book_author_xpath"),
    source)

\* convert_single_legado_source: the return value and *bs
convert_single_legado_source(source) ==
  IF ~source.basics THEN [ret |-> FALSE, bs |-> ZeroBookSource]
  ELSE IF source.bookSourceType.def /\ source.bookSourceType.val # 0
    THEN [ret |-> FALSE, bs |-> ZeroBookSource]
  ELSE IF source.enabled = "false" THEN [ret |-> FALSE, bs |-> ZeroBookSource]
  ELSE ConvertRuleSearch(
         [ret |-> TRUE,
          bs |-> [ZeroBookSource EXCEPT !.title = source.title,
                                        !.host = source.host]],
         source)

ErrJsonParse == "JSON parse error"
ErrNoCompatible == "No compatible book sources found"

ZeroResult ==
  [success_count |-> 0, failed_count |-> 0, skipped_count |-> 0,
   error_msg |-> ErrNone]

\* ------------------------------------------------------------------------
\* State
\* ------------------------------------------------------------------------
VARIABLES
  pc,           \* position of the caller: "idle", "loop" (between two items
                \* of the tail loop of ParseRule), "done" (ParseRule returned)
  rule, html,   \* arguments of the run
  value,        \* the caller's output vector
  value0,       \* value as it was when the run was called
  stop,         \* *stop, written by the supervising thread
  ret,          \* return value of the run
  baseResult,   \* local baseResult of ParseRule
  jsRule,       \* local jsRule of ParseRule
  idx,          \* index of the next item of the tail loop
  m_hasError,   \* LegadoRuleParser::m_hasError
  m_lastError,  \* LegadoRuleParser::m_lastError
  m_jsEngine,   \* the QuickJsEngine: m_context, m_hasError, m_lastError and
                \* the script global variable result
  evalLog,      \* tail evaluations of this run: the code, the item, the
                \* script variable result when the code started, whether
                \* the engine ran it, whether it failed, its message and value
  xpathCalls,   \* XPath expressions sent to the XPath engine by this run
  backendOut,   \* what the engine of the base phase returned to this run
  runs,         \* completed runs
  fnIn, fnOut   \* argument and result of the function under check

vars == <<pc, rule, html, value, value0, stop, ret, baseResult, jsRule, idx,
          m_hasError, m_lastError, m_jsEngine, evalLog, xpathCalls, backendOut,
          runs, fnIn, fnOut>>

runVars == <<pc, rule, html, value, value0, stop, ret, baseResult, jsRule, idx,
             m_hasError, m_lastError, m_jsEngine, evalLog, xpathCalls,
             backendOut, runs>>

NoOut == [called |-> FALSE, ret |-> 0, out |-> <<>>]

\* ------------------------------------------------------------------------
\* Inputs
\* ------------------------------------------------------------------------
Contents == {<<"h">>, JsonDoc, JsonArr}

\* The XPath engine's outcome is drawn from BackendOutcomes whatever the
\* content, so a run whose base goes to the XPath engine is followed on one
\* content only.
XPathContent == <<"h">>
Items == {<<"A">>, <<"B">>, <<Q2, "\\">>}
OldValues == {<<>>, <<<<"o">>>>}

XPathA == <<"/", "/", "a">>
Bases == {<<>>, XPathA, AtXPath \o XPathA, AtCss \o <<"a">>, DollarDot \o <<"n">>,
          <<"t">>, TplOpen \o ScrSum \o TplClose, AtXPathLower \o XPathA, AtCss}
Tails == {<<>>, AtJs, AtJs \o ScrAppend, AtJs \o ScrThrowB,
          JsOpen \o ScrEmpty \o JsClose}
JsonTrimRule == DollarDot \o <<"n">> \o AtJs \o ScrTrim
Rules == {b \o t : b \in Bases, t \in Tails} \cup {JsonTrimRule}

\* HtmlParser::HtmlParseByXpath: the XPath engine fails, or returns a
\* sequence of strings
BackendOutcomes ==
  {[ret |-> 1, out |-> o] : o \in {<<>>, <<<<"A">>>>}}
  \cup {[ret |-> 0, out |-> o] : o \in SeqUpTo(Items, MaxItems)}

InitEngine(ctx) ==
  [m_context |-> ctx, m_hasError |-> ~ctx,
   m_lastError |-> IF ctx THEN ErrNone ELSE "Failed to create JS context",
   result |-> Undef, m_variables |-> NoVariables, globals |-> NoVariables,
   m_httpCallback |-> CbNone]

\* the variables of a run before any run
FrameInit ==
  /\ rule = <<>> /\ html = <<>> /\ value = <<>> /\ value0 = <<>>
  /\ stop = FALSE /\ ret = 0 /\ baseResult = <<>> /\ jsRule = <<>> /\ idx = 0
  /\ m_hasError = FALSE /\ m_lastError = ErrNone
  /\ evalLog = <<>> /\ xpathCalls = <<>> /\ backendOut = NoOut /\ runs = 0

InitRun ==
  /\ pc = "idle" /\ rule = <<>> /\ html = <<>> /\ value = <<>> /\ value0 = <<>>
  /\ stop = FALSE /\ ret = 0 /\ baseResult = <<>> /\ jsRule = <<>> /\ idx = 0
  /\ m_hasError = FALSE /\ m_lastError = ErrNone
  /\ m_jsEngine \in {InitEngine(c) : c \in BOOLEAN}
  /\ evalLog = <<>> /\ xpathCalls = <<>> /\ backendOut = NoOut /\ runs = 0

Init == InitRun /\ fnIn = <<>> /\ fnOut = <<>>

\* ------------------------------------------------------------------------
\* LegadoRuleParser::ParseRule
\* ------------------------------------------------------------------------

\* LegadoRuleParser::ParseJsonPathRule on engine e: the engine afterwards, the
\* return value and the strings pushed
ParseJsonPathRule(e, content, jsonpath) ==
  LET e1 == setResult(e, content)
      jsCode == IF find(jsonpath, DollarDot, 0) = 0
                  THEN JsonParsePrefix \o substrFrom(jsonpath, 2)
                  ELSE JsonParsePrefix \o jsonpath
      r == eval(e1, jsCode)
  IN IF r.eng.m_hasError
       THEN [eng |-> r.eng, ret |-> 1, out |-> <<>>, err |-> r.eng.m_lastError]
       ELSE [eng |-> r.eng, ret |-> 0, out |-> <<r.val>>, err |-> ErrNone]

\* ParseCssRule up to the call of the XPath engine
CssDispatch(css, xpath) ==
  IF xpath = <<>> THEN [kind |-> "cssfail", body |-> css]
  ELSE [kind |-> "xpath", body |-> xpath]

\* the default branch: a JSOUP rule converted by CssToXPath
DefaultDispatch(xpath) ==
  IF xpath # <<>> THEN [kind |-> "xpath", body |-> xpath]
  ELSE [kind |-> "content", body |-> <<>>]

\* the dispatch of the base phase: which engine the base rule goes to and
\* with which body
BaseDispatch(baseRule) ==
  IF find(baseRule, AtCss, 0) = 0
    THEN CssDispatch(substrFrom(baseRule, 5), CssToXPath(substrFrom(baseRule, 5)))
  ELSE IF find(baseRule, AtJson, 0) = 0 \/ find(baseRule, DollarDot, 0) = 0
    THEN [kind |-> "json",
          body |-> IF find(baseRule, AtJson, 0) = 0 THEN substrFrom(baseRule, 6)
                   ELSE baseRule]
  ELSE IF find(baseRule, SlashSlash, 0) = 0 \/ find(baseRule, AtXPath, 0) = 0
    THEN [kind |-> "xpath",
          body |-> IF find(baseRule, AtXPath, 0) = 0 THEN substrFrom(baseRule, 7)
                   ELSE baseRule]
  ELSE DefaultDispatch(CssToXPath(baseRule))

\* ParseRule keeping the error flag of the previous run
HasErrorAtEntry_Stale(h) == h

\* m_hasError = false; at the entry of ParseRule
HasErrorAtEntry(h) == FALSE

\* the base phase ignoring the engine's return value
AbortOnBaseError_Never(r) == FALSE

\* if (ret != 0) return ret;
AbortOnBaseError(r) == r # 0

\* the tail loop ignoring the stop flag
StopObserved_Never(s) == FALSE

\* if (stop && *stop) break;
StopObserved(s) == s

\* the tail loop pushing the script's (empty) result also when it failed
TailOutput_NoDegrade(failed, item, jsResult) == jsResult

\* the element the tail loop pushes for one item
TailOutput(failed, item, jsResult) == IF failed THEN item ELSE jsResult

\* a run without tail appending the base result to the output it was given
PlainOutput_Append(old, base) == old \o base

\* value = baseResult;
PlainOutput(old, base) == base

\* the base phase of a rule with an empty base yielding nothing
EmptyBaseResult_None(content) == <<>>

\* baseResult.push_back(std::string(html, len));
EmptyBaseResult(content) == <<content>>

\* the base phase after the dispatch d
BasePhaseOf(e, d, h, b) ==
  IF d.kind = "xpath"
    THEN [eng |-> e, ret |-> b.ret, out |-> b.out, err |-> ErrNone,
          xpath |-> <<d.body>>, json |-> FALSE]
  ELSE IF d.kind = "json"
    THEN [xpath |-> <<>>, json |-> TRUE] @@ ParseJsonPathRule(e, h, d.body)
  ELSE IF d.kind = "cssfail"
    THEN [eng |-> e, ret |-> 1, out |-> <<>>, err |-> ErrCssConvert,
          xpath |-> <<>>, json |-> FALSE]
  ELSE [eng |-> e, ret |-> 0, out |-> EmptyBaseResult(h), err |-> ErrNone,
        xpath |-> <<>>, json |-> FALSE]

\* the base phase of ParseRule for a non-empty rule with base rule baseRule:
\* the engine afterwards, the return value, the content of baseResult, the
\* error recorded, the XPath sent to the XPath engine (if any), and whether
\* the script engine served as the engine of the base phase
BasePhase(e, baseRule, h, b) ==
  IF baseRule = <<>>
    THEN [eng |-> e, ret |-> 0, out |-> EmptyBaseResult(h), err |-> ErrNone,
          xpath |-> <<>>, json |-> FALSE]
  ELSE BasePhaseOf(e, BaseDispatch(baseRule), h, b)

\* the call of ParseRule up to the tail loop: error reset, split, base phase
ParseRuleCall ==
  /\ pc = "idle" /\ runs < MaxRuns
  /\ \E r \in Rules, h \in Contents, v0 \in OldValues, b \in BackendOutcomes :
       /\ rule' = r /\ html' = h /\ value0' = v0 /\ stop' = FALSE
       /\ evalLog' = <<>> /\ idx' = 0
       /\ IF r = <<>>
            THEN \* if (rule.empty()) return 0;
                 /\ b = [ret |-> 1, out |-> <<>>]
                 /\ m_hasError' = HasErrorAtEntry(m_hasError)
                 /\ m_lastError' = ErrNone
                 /\ xpathCalls' = <<>> /\ backendOut' = NoOut
                 /\ baseResult' = <<>> /\ jsRule' = <<>>
                 /\ ret' = 0 /\ value' = v0 /\ pc' = "done"
                 /\ UNCHANGED m_jsEngine
            ELSE \E sp \in {SplitRule(r)} :
                 \E bp \in {BasePhase(m_jsEngine, sp.baseRule, h, b)} :
                 \E abort \in {AbortOnBaseError(bp.ret)} :
                   /\ (bp.xpath = <<>> => b = [ret |-> 1, out |-> <<>>])
                   /\ (bp.xpath # <<>> => h = XPathContent)
                   /\ m_hasError' = (HasErrorAtEntry(m_hasError) \/ bp.err # ErrNone)
                   /\ m_lastError' = bp.err
                   /\ m_jsEngine' = bp.eng
                   /\ xpathCalls' = bp.xpath
                   /\ backendOut' = IF bp.xpath # <<>> \/ bp.json
                                      THEN [called |-> TRUE, ret |-> bp.ret, out |-> bp.out]
                                      ELSE NoOut
                   /\ baseResult' = bp.out
                   /\ jsRule' = sp.jsRule
                   /\ ret' = IF abort THEN bp.ret ELSE 0
                   /\ value' = IF abort \/ sp.jsRule # <<>> THEN v0
                               ELSE PlainOutput(v0, bp.out)
                   /\ pc' = IF ~abort /\ sp.jsRule # <<>> /\ bp.out # <<>>
                              THEN "loop" ELSE "done"
  /\ UNCHANGED <<runs, fnIn, fnOut>>

\* one pass of the tail loop, from one loop boundary to the next
TailStep ==
  /\ pc = "loop"
  /\ IF StopObserved(stop)
       THEN /\ pc' = "done"
            /\ UNCHANGED <<value, idx, m_hasError, m_lastError, m_jsEngine, evalLog>>
       ELSE LET item == baseResult[idx + 1]
                e1 == setResult(m_jsEngine, item)
                r == eval(e1, jsRule)
            IN /\ m_jsEngine' = r.eng
               /\ IF r.eng.m_hasError
                    THEN /\ m_hasError' = TRUE
                         /\ m_lastError' = r.eng.m_lastError
                    ELSE UNCHANGED <<m_hasError, m_lastError>>
               /\ value' = Append(value, TailOutput(r.eng.m_hasError, item, r.val))
               /\ evalLog' = Append(evalLog,
                                    [code |-> jsRule, item |-> item, seen |-> e1.result,
                                     ran |-> r.ran, failed |-> r.eng.m_hasError,
                                     msg |-> r.eng.m_lastError, val |-> r.val])
               /\ idx' = idx + 1
               /\ pc' = IF idx + 1 = Len(baseResult) THEN "done" ELSE "loop"
  /\ UNCHANGED <<rule, html, value0, stop, ret, baseResult, jsRule, xpathCalls,
                 backendOut, runs, fnIn, fnOut>>

\* the supervising thread raises the stop flag
SetStop ==
  /\ pc = "loop" /\ ~stop
  /\ stop' = TRUE
  /\ UNCHANGED <<pc, rule, html, value, value0, ret, baseResult, jsRule, idx,
                 m_hasError, m_lastError, m_jsEngine, evalLog, xpathCalls,
                 backendOut, runs, fnIn, fnOut>>

\* the caller takes the results; the parser and the engine stay as they are
ParseRuleReturn ==
  /\ pc = "done"
  /\ pc' = "idle" /\ runs' = runs + 1
  /\ rule' = <<>> /\ html' = <<>> /\ value' = <<>> /\ value0' = <<>>
  /\ stop' = FALSE /\ ret' = 0 /\ baseResult' = <<>> /\ jsRule' = <<>> /\ idx' = 0
  /\ evalLog' = <<>> /\ xpathCalls' = <<>> /\ backendOut' = NoOut
  /\ UNCHANGED <<m_hasError, m_lastError, m_jsEngine, fnIn, fnOut>>

\* LegadoRuleParser::EvalJs called between two runs
EvalJsCodes == {ScrSum, ScrUndefined}
EvalJs ==
  /\ pc = "idle" /\ runs < MaxRuns
  /\ \E code \in EvalJsCodes : \E r \in {eval(m_jsEngine, code)} :
       /\ m_jsEngine' = r.eng
       /\ IF r.eng.m_hasError
            THEN m_hasError' = TRUE /\ m_lastError' = r.eng.m_lastError
            ELSE UNCHANGED <<m_hasError, m_lastError>>
  /\ UNCHANGED <<pc, rule, html, value, value0, stop, ret, baseResult, jsRule,
                 idx, evalLog, xpathCalls, backendOut, runs, fnIn, fnOut>>

Next == ParseRuleCall \/ TailStep \/ SetStop \/ ParseRuleReturn \/ EvalJs

Spec == Init /\ [][Next]_vars

\* ------------------------------------------------------------------------
\* JsRuleProcessor::ProcessRule
\* ------------------------------------------------------------------------

\* the loop of ProcessRule over the XPath results: ExecuteJs on each item,
\* the non-empty results pushed
RECURSIVE ExecuteJsEach(_, _, _, _, _)
ExecuteJsEachNext(code, items, results, log, r) ==
  ExecuteJsEach(r.p, code, Tail(items),
                IF r.val # <<>> THEN Append(results, r.val) ELSE results,
                Append(log, [code |-> code, item |-> r.input, val |-> r.val,
                             failed |-> r.failed]))

ExecuteJsEach(p, code, items, results, log) ==
  IF items = <<>> THEN [p |-> p, results |-> results, log |-> log]
  ELSE ExecuteJsEachNext(code, items, results, log, ExecuteJs(p, code, Head(items)))

\* if (!processed.empty()) results.push_back(processed);
TemplateResults(processed) == IF processed # <<>> THEN <<processed>> ELSE <<>>

ProcessTemplateOf(r) ==
  [p |-> r.p, ret |-> 0, results |-> TemplateResults(r.out), xpath |-> <<>>,
   log |-> r.log]

ProcessJsOf(r, xpath) ==
  [p |-> r.p, ret |-> 0, results |-> r.results, xpath |-> xpath, log |-> r.log]

\* ProcessRule after ParseRule returned pr; b is what the XPath engine does
\* when it is called
ProcessParsed(p, pr, b) ==
  IF pr.isTemplate
    THEN ProcessTemplateOf(EvaluateTemplate(p, pr.jsPart, <<>>))
  ELSE IF pr.jsPart = <<>>
    THEN IF pr.xpathPart = <<>>
           THEN [p |-> p, ret |-> 0, results |-> <<>>, xpath |-> <<>>, log |-> <<>>]
           ELSE [p |-> p, ret |-> b.ret, results |-> b.out,
                 xpath |-> <<pr.xpathPart>>, log |-> <<>>]
  ELSE IF pr.xpathPart = <<>>
    THEN ProcessJsOf(ExecuteJsEach(p, pr.jsPart, <<<<>>>>, <<>>, <<>>), <<>>)
  ELSE IF b.ret # 0
    THEN [p |-> p, ret |-> b.ret, results |-> <<>>, xpath |-> <<pr.xpathPart>>,
          log |-> <<>>]
  ELSE IF b.out = <<>>
    THEN ProcessJsOf(ExecuteJsEach(p, pr.jsPart, <<<<>>>>, <<>>, <<>>),
                     <<pr.xpathPart>>)
  ELSE ProcessJsOf(ExecuteJsEach(p, pr.jsPart, b.out, <<>>, <<>>), <<pr.xpathPart>>)

\* JsRuleProcessor::ProcessRule: the processor afterwards, the return value,
\* the content of results, the XPath sent to the XPath engine (if any) and
\* the script evaluations made
ProcessRule(p, ruleStr, b) ==
  IF ruleStr = <<>>
    THEN [p |-> p, ret |-> 0, results |-> <<>>, xpath |-> <<>>, log |-> <<>>]
  ELSE ProcessParsed(p, JsRuleProcessor_ParseRule(ruleStr), b)

ProcTemplates ==
  {TplOpen \o ScrEmpty \o TplClose,
   TplOpen \o ScrUndefined \o TplClose,
   <<"a">> \o TplOpen \o ScrSum \o TplClose,
   TplOpen \o ScrResult \o TplClose,
   TplOpen \o AtCss \o <<"a">> \o TplClose}
ProcRules == Rules \cup ProcTemplates

\* In this specification m_jsEngine is the JsEngine of the JsRuleProcessor
\* and m_lastError is JsRuleProcessor::m_lastError.
InitProc ==
  /\ FrameInit /\ pc = "idle" /\ m_jsEngine = NoJsEngine
  /\ fnIn = <<>> /\ fnOut = <<>>

\* JsRuleProcessor::Initialize: the engine is created, or its creation fails
Initialize ==
  /\ pc = "idle" /\ ~m_jsEngine.m_initialized
  /\ \/ m_jsEngine' = NewJsEngine /\ UNCHANGED m_lastError
     \/ m_jsEngine' = NoJsEngine /\ m_lastError' = ErrCreateRuntime
  /\ UNCHANGED <<pc, rule, html, value, value0, stop, ret, baseResult, jsRule,
                 idx, m_hasError, evalLog, xpathCalls, backendOut, runs, fnIn,
                 fnOut>>

ProcessRuleCall ==
  /\ pc = "idle" /\ runs < MaxRuns
  /\ \E r \in ProcRules, h \in Contents, v0 \in OldValues, b \in BackendOutcomes :
     \E res \in {ProcessRule([eng |-> m_jsEngine, m_lastError |-> m_lastError], r, b)} :
       /\ (res.xpath = <<>> => b = [ret |-> 1, out |-> <<>>])
       /\ (res.xpath # <<>> => h = XPathContent)
       /\ rule' = r /\ html' = h /\ value0' = v0
       /\ value' = res.results /\ ret' = res.ret
       /\ m_jsEngine' = res.p.eng /\ m_lastError' = res.p.m_lastError
       /\ evalLog' = res.log /\ xpathCalls' = res.xpath
       /\ backendOut' = IF res.xpath # <<>>
                          THEN [called |-> TRUE, ret |-> b.ret, out |-> b.out]
                          ELSE NoOut
       /\ pc' = "done"
  /\ UNCHANGED <<stop, baseResult, jsRule, idx, m_hasError, runs, fnIn, fnOut>>

\* the caller takes the results; the processor and the engine stay as they are
ProcessRuleReturn ==
  /\ pc = "done"
  /\ pc' = "idle" /\ runs' = runs + 1
  /\ rule' = <<>> /\ html' = <<>> /\ value' = <<>> /\ value0' = <<>> /\ ret' = 0
  /\ evalLog' = <<>> /\ xpathCalls' = <<>> /\ backendOut' = NoOut
  /\ UNCHANGED <<stop, baseResult, jsRule, idx, m_hasError, m_lastError,
                 m_jsEngine, fnIn, fnOut>>

NextProc == Initialize \/ ProcessRuleCall \/ ProcessRuleReturn

SpecProc == InitProc /\ [][NextProc]_vars

\* ------------------------------------------------------------------------
\* Specifications that apply one function to every input of a bounded set
\* ------------------------------------------------------------------------
\* --- the splitter ---
SplitFrags == {<<"a">>, AtJs, JsOpen, JsClose, TplOpen, TplClose, <<"{">>}
SplitInputs == {Flatten(fs) : fs \in SeqUpTo(SplitFrags, MaxFrags)}

InitSplit ==
  /\ FrameInit /\ pc = "input" /\ m_jsEngine = InitEngine(TRUE)
  /\ fnIn \in SplitInputs /\ fnOut = <<>>

ApplySplit ==
  /\ pc = "input"
  /\ fnOut' = [parse |-> JsRuleProcessor_ParseRule(fnIn),
               extract |-> extractJsFromRule(fnIn),
               split |-> SplitRule(fnIn),
               parserContainsJs |-> LegadoRuleParser_ContainsJs(fnIn),
               engineContainsJs |-> containsJs(fnIn),
               ruleContainsJs |-> ruleContainsJs(fnIn),
               process |-> processRule(m_jsEngine, fnIn, <<"A">>)]
  /\ pc' = "split"
  /\ UNCHANGED <<rule, html, value, value0, stop, ret, baseResult, jsRule, idx,
                 m_hasError, m_lastError, m_jsEngine, evalLog, xpathCalls,
                 backendOut, runs, fnIn>>

NextSplit == ApplySplit

SpecSplit == InitSplit /\ [][NextSplit]_vars

\* --- the CSS compiler ---
\* a selector of the grammar: parts with a tag, a class, an id and an
\* attribute (each optional, in this order), and the attribute to extract
NoName == <<>>
TagDiv == <<"d", "i", "v">>
ClsName == <<"c", "l", "s">>
IdName == <<"i", "d">>
AttrName == <<"d", "a", "t", "a", "-", "x">>
ExtText == <<"t", "e", "x", "t">>
ExtHtml == <<"h", "t", "m", "l">>
ExtInnerHtml == <<"i", "n", "n", "e", "r", "H", "t", "m", "l">>
ExtHref == <<"h", "r", "e", "f">>

CssPartInputs ==
  {p \in [tag : {NoName, TagDiv}, cls : {NoName, ClsName}, id : {NoName, IdName},
          attr : {NoName, AttrName}, val : {NoName, <<"1">>}, quote : {NoName}] :
     /\ (p.attr = NoName => p.val = NoName)
     /\ ~(p.tag = NoName /\ p.cls = NoName /\ p.id = NoName /\ p.attr = NoName)}
  \cup {[tag |-> TagDiv, cls |-> NoName, id |-> NoName, attr |-> AttrName,
         val |-> <<"1">>, quote |-> <<Q2>>]}

CssInputs ==
  {[parts |-> ps, ext |-> x] :
     ps \in (SeqUpTo(CssPartInputs, MaxParts) \ {<<>>}),
     x \in {NoName, ExtText, ExtHtml, ExtInnerHtml, ExtHref}}

RenderPart(p) ==
  p.tag
  \o (IF p.cls # NoName THEN <<".">> \o p.cls ELSE <<>>)
  \o (IF p.id # NoName THEN <<"#">> \o p.id ELSE <<>>)
  \o (IF p.attr # NoName
        THEN <<"[">> \o p.attr
             \o (IF p.val # NoName THEN <<"=">> \o p.quote \o p.val \o p.quote ELSE <<>>)
             \o <<"]">>
        ELSE <<>>)

RECURSIVE RenderParts(_)
RenderParts(ps) ==
  IF Len(ps) = 1 THEN RenderPart(ps[1])
  ELSE RenderPart(ps[1]) \o <<" ">> \o RenderParts(Tail(ps))

RenderCss(sel) ==
  RenderParts(sel.parts) \o (IF sel.ext # NoName THEN <<"@">> \o sel.ext ELSE <<>>)

InitCss ==
  /\ FrameInit /\ pc = "input" /\ m_jsEngine = InitEngine(TRUE)
  /\ fnIn \in CssInputs /\ fnOut = <<>>

ApplyCss ==
  /\ pc = "input"
  /\ fnOut' = CssToXPath(RenderCss(fnIn))
  /\ pc' = "compiled"
  /\ UNCHANGED <<rule, html, value, value0, stop, ret, baseResult, jsRule, idx,
                 m_hasError, m_lastError, m_jsEngine, evalLog, xpathCalls,
                 backendOut, runs, fnIn>>

NextCss == ApplyCss

SpecCss == InitCss /\ [][NextCss]_vars

\* --- the CSS compiler on any string ---
\* fnIn is a string of tag, class, id and attribute tokens and spaces in any
\* order, fnOut what CssToXPath returns for it.
CssRawFrags ==
  {TagDiv, <<".", "a">>, <<".", "b">>, <<"#", "i">>, <<"#", "j">>,
   <<"[", "x", "]">>, <<"[", "y", "=", "1", "]">>, <<" ">>}
CssRawInputs == {Flatten(fs) : fs \in SeqUpTo(CssRawFrags, MaxFrags)}

InitCssRaw ==
  /\ FrameInit /\ pc = "raw" /\ m_jsEngine = InitEngine(TRUE)
  /\ fnIn \in CssRawInputs /\ fnOut = <<>>

ApplyCssRaw ==
  /\ pc = "raw"
  /\ fnOut' = CssToXPath(fnIn)
  /\ pc' = "compiled"
  /\ UNCHANGED <<rule, html, value, value0, stop, ret, baseResult, jsRule, idx,
                 m_hasError, m_lastError, m_jsEngine, evalLog, xpathCalls,
                 backendOut, runs, fnIn>>

NextCssRaw == ApplyCssRaw

SpecCssRaw == InitCssRaw /\ [][NextCssRaw]_vars

\* --- the template expander ---
TextA == <<"a">>
TextB == <<"b">>
TextX == <<"x">>
TmplFrags ==
  {TextA, TextB, TextX, TplOpen, TplClose, ScrSum,
   TplOpen \o ScrSum \o TplClose,
   TplOpen \o ScrResult \o TplClose,
   TplOpen \o AtCss \o TextA \o TplClose}
TmplInputs == {Flatten(fs) : fs \in SeqUpTo(TmplFrags, MaxFrags)}

\* the engines a template is expanded on: with and without a context, the
\* variable result unset or set
TmplEngines ==
  {[InitEngine(c) EXCEPT !.result = r] : c \in BOOLEAN, r \in {Undef, Str(<<"A">>)}}

InitTmpl ==
  /\ FrameInit /\ pc = "input" /\ m_jsEngine \in TmplEngines
  /\ fnIn \in TmplInputs /\ fnOut = <<>>

ApplyTmpl ==
  /\ pc = "input"
  /\ \E r \in {processTemplate(m_jsEngine, fnIn)} :
       /\ fnOut' = [expand |-> r.out, spans |-> r.log,
                    evaluate |-> EvaluateTemplate([eng |-> NewJsEngine,
                                                   m_lastError |-> ErrNone],
                                                  fnIn, <<"A">>).out,
                    evaluated |-> EvaluateTemplate([eng |-> NewJsEngine,
                                                    m_lastError |-> ErrNone],
                                                   fnIn, <<"A">>).log]
       /\ m_jsEngine' = r.eng
  /\ pc' = "expanded"
  /\ UNCHANGED <<rule, html, value, value0, stop, ret, baseResult, jsRule, idx,
                 m_hasError, m_lastError, evalLog, xpathCalls, backendOut, runs,
                 fnIn>>

NextTmpl == ApplyTmpl

SpecTmpl == InitTmpl /\ [][NextTmpl]_vars

\* --- the engine interface ---
\* A caller drives one QuickJsEngine through its interface; evalLog holds one
\* entry for every setVariable and every script evaluated, with the callback
\* set when it started.
EngScripts ==
  {ScrPutV, ScrPutW, ScrGet, ScrGlobalK, ScrAjax1, ScrAjax2, ScrPost1, ScrPost2,
   ScrSum, ScrUndefined}
EngValues == {<<"v">>, <<"w">>, <<Q2>>}
EngCallbacks == {CbNone, CbEcho, CbConst}
EngTemplates ==
  {TplOpen \o ScrPutV \o TplClose \o TplOpen \o ScrGet \o TplClose,
   TplOpen \o ScrGet \o TplClose \o TplOpen \o ScrPutW \o TplClose,
   TplOpen \o ScrUndefined \o TplClose \o TplOpen \o ScrSum \o TplClose,
   TplOpen \o ScrSum \o TplClose \o TplOpen \o ScrUndefined \o TplClose}

InitEng ==
  /\ FrameInit /\ pc = "engine"
  /\ m_jsEngine \in {InitEngine(c) : c \in BOOLEAN}
  /\ fnIn = <<>> /\ fnOut = <<>>

EngFrame == <<pc, rule, html, value, value0, stop, ret, baseResult, jsRule, idx,
              m_hasError, m_lastError, xpathCalls, backendOut, fnIn, fnOut>>

\* QuickJsEngine::eval called by the caller
evalCall ==
  /\ pc = "engine" /\ runs < MaxCalls
  /\ \E code \in EngScripts : \E r \in {eval(m_jsEngine, code)} :
       /\ m_jsEngine' = r.eng
       /\ evalLog' = Append(evalLog,
                            [op |-> "eval", code |-> code, val |-> r.val,
                             failed |-> r.eng.m_hasError,
                             cb |-> m_jsEngine.m_httpCallback,
                             span |-> FALSE])
  /\ runs' = runs + 1
  /\ UNCHANGED EngFrame

\* QuickJsEngine::setVariable called by the caller
setVariableCall ==
  /\ pc = "engine" /\ runs < MaxCalls
  /\ \E v \in EngValues : \E e \in {setVariable(m_jsEngine, v)} :
       /\ m_jsEngine' = e
       /\ evalLog' = Append(evalLog,
                            [op |-> "setVariable", code |-> v, val |-> <<>>,
                             failed |-> e.m_hasError,
                             cb |-> m_jsEngine.m_httpCallback,
                             span |-> FALSE])
  /\ runs' = runs + 1
  /\ UNCHANGED EngFrame

\* QuickJsEngine::setResult called by the caller
setResultCall ==
  /\ pc = "engine" /\ runs < MaxCalls
  /\ \E v \in EngValues : \E e \in {setResult(m_jsEngine, v)} :
       /\ m_jsEngine' = e
       /\ evalLog' = Append(evalLog,
                            [op |-> "setResult", code |-> v, val |-> <<>>,
                             failed |-> e.m_hasError,
                             cb |-> m_jsEngine.m_httpCallback,
                             span |-> FALSE])
  /\ runs' = runs + 1
  /\ UNCHANGED EngFrame

\* QuickJsEngine::setHttpCallback called by the caller
setHttpCallbackCall ==
  /\ pc = "engine" /\ runs < MaxCalls
  /\ \E cb \in EngCallbacks : m_jsEngine' = setHttpCallback(m_jsEngine, cb)
  /\ runs' = runs + 1
  /\ UNCHANGED <<evalLog, EngFrame>>

\* the entries of the expressions a template expansion evaluated
SpanEntries(log, cb) ==
  [i \in 1..Len(log) |-> [op |-> "eval", code |-> log[i].expr, val |-> log[i].val,
                          failed |-> log[i].failed, cb |-> cb,
                          span |-> TRUE]]

\* QuickJsEngine::processTemplate called by the caller
processTemplateCall ==
  /\ pc = "engine" /\ runs < MaxCalls
  /\ \E t \in EngTemplates : \E r \in {processTemplate(m_jsEngine, t)} :
       /\ m_jsEngine' = r.eng
       /\ evalLog' = evalLog \o SpanEntries(r.log, m_jsEngine.m_httpCallback)
  /\ runs' = runs + 1
  /\ UNCHANGED EngFrame

NextEng ==
  \/ evalCall \/ setVariableCall \/ setResultCall \/ setHttpCallbackCall
  \/ processTemplateCall

SpecEng == InitEng /\ [][NextEng]_vars

\* --- rules processed one after the other on one engine ---
\* evalLog holds one entry per call of QuickJsEngine::processRule: the rule,
\* the result handed in, the string returned and the engine before and
\* after; fnOut is the context of the test harness: its global variable
\* result and one entry per call of evaluate_js.
SeqRules ==
  {<<>>, AtJs \o ScrResult, JsOpen \o ScrResult \o JsClose, AtJs \o ScrUndefined,
   XPathA}
SeqResults == {<<>>, <<"A">>, <<"B">>}
SeqCodes == {ScrResult, ScrUndefined}

InitSeq ==
  /\ FrameInit /\ pc = "rules"
  /\ m_jsEngine \in {InitEngine(c) : c \in BOOLEAN}
  /\ fnIn = <<>> /\ fnOut = [result |-> Undef, log |-> <<>>]

processRuleCall ==
  /\ pc = "rules" /\ runs < MaxCalls
  /\ \E r \in SeqRules, res \in SeqResults :
       \E p \in {processRule(m_jsEngine, r, res)} :
         /\ m_jsEngine' = p.eng
         /\ evalLog' = Append(evalLog,
                              [rule |-> r, result |-> res, val |-> p.val,
                               before |-> m_jsEngine, after |-> p.eng])
  /\ runs' = runs + 1
  /\ UNCHANGED EngFrame

evaluateJsCall ==
  /\ pc = "rules" /\ runs < MaxCalls
  /\ \E code \in SeqCodes, res \in SeqResults :
       \E r \in {evaluate_js(fnOut.result, code, res)} :
         fnOut' = [result |-> r.res,
                   log |-> Append(fnOut.log,
                                  [code |-> code, result |-> res, val |-> r.val,
                                   failed |-> r.failed])]
  /\ runs' = runs + 1
  /\ UNCHANGED <<pc, rule, html, value, value0, stop, ret, baseResult, jsRule,
                 idx, m_hasError, m_lastError, m_jsEngine, evalLog, xpathCalls,
                 backendOut, fnIn>>

NextSeq == processRuleCall \/ evaluateJsCall

SpecSeq == InitSeq /\ [][NextSeq]_vars

\* --- the book source converter ---
\* fnIn is the JSON text handed to convert_legado_to_reader, as its parse
\* (kind: "invalid", "array", "object", "other") and the sources in it;
\* fnOut is the caller's array bs, *count, *result, the loop index and the
\* return value.
RuleXPath == SlashSlash \o <<"a">>
RuleJsoup == KwClass \o <<".", "n", ".", "0", "@">> \o KwTag \o <<".", "a", "@">> \o KwText
RuleJs == SlashSlash \o <<"a">> \o AtJs \o ScrResult
RuleJsTag == JsOpen \o ScrResult \o JsClose
RuleCssNoAttr == AtCss \o <<".", "c">>
RuleAt == <<"@">>
ConvRules == {RuleXPath, RuleJsoup, RuleJs, RuleJsTag, RuleCssNoAttr, RuleAt, <<>>}

NoType == [def |-> FALSE, val |-> 0]
Type(n) == [def |-> TRUE, val |-> n]

RuleFields ==
  {"name", "bookUrl", "author", "chapterList", "chapterName", "chapterUrl",
   "nextTocUrl", "content", "nextContentUrl", "tocUrl"}

SrcGood ==
  [basics |-> TRUE, bookSourceType |-> NoType, enabled |-> "absent",
   title |-> <<"T">>, host |-> <<"H">>,
   name |-> Str(RuleJsoup), bookUrl |-> Str(RuleXPath), author |-> Undef,
   chapterList |-> Str(RuleXPath), chapterName |-> Undef,
   chapterUrl |-> Str(RuleXPath), nextTocUrl |-> Undef,
   content |-> Str(RuleXPath), nextContentUrl |-> Undef, tocUrl |-> Undef]
SrcAudio == [SrcGood EXCEPT !.bookSourceType = Type(1)]
SrcDisabled == [SrcGood EXCEPT !.enabled = "false"]
SrcNoName == [SrcGood EXCEPT !.basics = FALSE]
SrcJsName == [SrcGood EXCEPT !.name = Str(RuleJs)]
SrcJsListShadowed ==
  [SrcGood EXCEPT !.chapterName = Str(RuleXPath), !.chapterList = Str(RuleJs)]
SrcOptJs ==
  [SrcGood EXCEPT !.nextTocUrl = Str(RuleJs), !.nextContentUrl = Str(RuleXPath),
                  !.tocUrl = Str(RuleCssNoAttr)]
SrcOptGood ==
  [SrcGood EXCEPT !.bookSourceType = Type(0), !.enabled = "true",
                  !.nextTocUrl = Str(RuleXPath), !.nextContentUrl = Str(RuleJsTag),
                  !.tocUrl = Str(RuleXPath)]
SrcBadAuthor == [SrcGood EXCEPT !.author = Str(RuleAt)]

ArraySources == {SrcGood, SrcAudio, SrcDisabled, SrcNoName, SrcJsName, SrcOptJs}

\* a single source: also with one rule replaced
ObjectSources ==
  {[SrcGood EXCEPT ![f] = Str(r)] : f \in RuleFields, r \in ConvRules}
    \cup ArraySources \cup {SrcJsListShadowed, SrcOptGood, SrcBadAuthor}

ConvInputs ==
  {[kind |-> "array", items |-> ss] : ss \in SeqUpTo(ArraySources, MaxSources)}
    \cup {[kind |-> "object", items |-> <<s>>] : s \in ObjectSources}
    \cup {[kind |-> k, items |-> <<>>] : k \in {"invalid", "other"}}

\* what the caller holds in *count and the counters of *result before the call
StaleCounts == {0, 5}

ConvFrame == <<rule, html, value, value0, stop, ret, baseResult, jsRule, idx,
               m_hasError, m_lastError, m_jsEngine, evalLog, xpathCalls,
               backendOut, runs, fnIn>>

InitConv ==
  /\ FrameInit /\ pc = "conv" /\ m_jsEngine = InitEngine(TRUE)
  /\ fnIn \in ConvInputs
  /\ \E c \in StaleCounts :
       fnOut = [bs |-> [k \in 0..(MAX_BOOKSRC_COUNT - 1) |-> ZeroBookSource],
                count |-> c,
                result |-> [ZeroResult EXCEPT !.success_count = c,
                                              !.failed_count = c,
                                              !.skipped_count = c],
                i |-> 0, returned |-> FALSE, ret |-> FALSE]

\* one source converted into bs[*count] and counted
ConvertInto(o, source) ==
  LET c == convert_single_legado_source(source)
  IN IF c.ret
       THEN [o EXCEPT !.bs[o.count] = c.bs, !.count = o.count + 1,
                      !.result.success_count = o.result.success_count + 1]
       ELSE [o EXCEPT !.bs[o.count] = c.bs,
                      !.result.skipped_count = o.result.skipped_count + 1]

\* convert_legado_to_reader up to the loop over the array
ConvertBegin ==
  /\ pc = "conv"
  /\ \E o \in {[fnOut EXCEPT !.result = ZeroResult, !.count = 0]} :
       IF fnIn.kind = "invalid"
         THEN /\ fnOut' = [o EXCEPT !.result.error_msg = ErrJsonParse,
                                    !.returned = TRUE, !.ret = FALSE]
              /\ pc' = "convDone"
       ELSE IF fnIn.kind = "array"
         THEN fnOut' = o /\ pc' = "convLoop"
       ELSE IF fnIn.kind = "object"
         THEN fnOut' = ConvertInto(o, fnIn.items[1]) /\ pc' = "convEnd"
       ELSE fnOut' = o /\ pc' = "convEnd"
  /\ UNCHANGED ConvFrame

\* one iteration of  for (i = 0; i < array_size && *count < MAX_BOOKSRC_COUNT; i++)
ConvertItem ==
  /\ pc = "convLoop"
  /\ fnOut.i < Len(fnIn.items) /\ fnOut.count < MAX_BOOKSRC_COUNT
  /\ fnOut' = [ConvertInto(fnOut, fnIn.items[fnOut.i + 1]) EXCEPT !.i = fnOut.i + 1]
  /\ UNCHANGED <<pc>> /\ UNCHANGED ConvFrame

ConvertLoopExit ==
  /\ pc = "convLoop"
  /\ ~(fnOut.i < Len(fnIn.items) /\ fnOut.count < MAX_BOOKSRC_COUNT)
  /\ pc' = "convEnd"
  /\ UNCHANGED <<fnOut>> /\ UNCHANGED ConvFrame

\* the return of convert_legado_to_reader
ConvertEnd ==
  /\ pc = "convEnd"
  /\ fnOut' = IF fnOut.count > 0
                THEN [fnOut EXCEPT !.returned = TRUE, !.ret = TRUE]
                ELSE [fnOut EXCEPT !.returned = TRUE, !.ret = FALSE,
                                   !.result.error_msg = ErrNoCompatible]
  /\ pc' = "convDone"
  /\ UNCHANGED ConvFrame

NextConv == ConvertBegin \/ ConvertItem \/ ConvertLoopExit \/ ConvertEnd

SpecConv == InitConv /\ [][NextConv]_vars

\* --- the JSOUP translator ---
\* fnIn is a JSOUP-default rule, fnOut what convert_jsoup_to_xpath returns
\* for it and what convert_legado_rule_to_xpath makes of it.
JsoupTokenInputs ==
  {KwClass \o <<".", "n">>, KwClass \o <<".", "n", ".", "0">>,
   KwClass \o <<".", "n", ".", "1">>,
   KwId \o <<".", "n">>, KwId \o <<".", "n", ".", "0">>,
   KwTag \o <<".", "a">>, KwTag \o <<".", "a", ".", "0">>,
   KwText, KwHref, KwSrc, KwHtml}
RECURSIVE JoinAt(_)
JoinAt(ts) ==
  IF ts = <<>> THEN <<>>
  ELSE IF Len(ts) = 1 THEN Head(ts)
  ELSE Head(ts) \o <<"@">> \o JoinAt(Tail(ts))
JsoupInputs == {JoinAt(ts) : ts \in SeqUpTo(JsoupTokenInputs, MaxTokens)} \cup {RuleJsoup}

InitJsoup ==
  /\ FrameInit /\ pc = "jsoup" /\ m_jsEngine = InitEngine(TRUE)
  /\ fnIn \in JsoupInputs /\ fnOut = <<>>

ApplyJsoup ==
  /\ pc = "jsoup"
  /\ fnOut' = [jsoup |-> convert_jsoup_to_xpath(fnIn, <<>>),
               rule |-> convert_legado_rule_to_xpath(fnIn, <<>>)]
  /\ pc' = "translated"
  /\ UNCHANGED ConvFrame

NextJsoup == ApplyJsoup

SpecJsoup == InitJsoup /\ [][NextJsoup]_vars

\* ------------------------------------------------------------------------
\* Properties
\* ------------------------------------------------------------------------
Occurs(s, pat) == \E i \in 1..(Len(s) - Len(pat) + 1) : SubSeq(s, i, i + Len(pat) - 1) = pat

\* s is b, then pat, then t, and this pat is the first one in s
FirstCut(s, pat, b, t) ==
  /\ s = b \o pat \o t
  /\ ~Occurs(b \o SubSeq(pat, 1, Len(pat) - 1), pat)

\* the first <js> of s lies before the first </js> of s
OpenBeforeClose(s) ==
  \E b \in {SubSeq(s, 1, k) : k \in 0..Len(s)} :
    /\ \E t \in {SubSeq(s, k, Len(s)) : k \in 1..(Len(s) + 1)} : FirstCut(s, JsOpen, b, t)
    /\ ~Occurs(b \o SubSeq(JsOpen, 1, 3), JsClose)

SplitAsClaimed(r, o) ==
  IF Occurs(r, AtJs)
    THEN FirstCut(r, AtJs, o.xpathPart, o.jsPart) /\ ~o.isTemplate
  ELSE IF Occurs(r, JsOpen) /\ Occurs(r, JsClose) /\ OpenBeforeClose(r)
    THEN /\ \E t \in {SubSeq(r, k, Len(r)) : k \in 1..(Len(r) + 1)} :
              /\ FirstCut(r, JsOpen, o.xpathPart, o.jsPart \o JsClose \o t)
              /\ ~Occurs(o.jsPart \o SubSeq(JsClose, 1, 4), JsClose)
         /\ ~o.isTemplate
  ELSE IF Occurs(r, TplOpen) /\ Occurs(r, TplClose)
    THEN o.xpathPart = <<>> /\ o.jsPart = r /\ o.isTemplate
  ELSE o.xpathPart = r /\ o.jsPart = <<>> /\ ~o.isTemplate

\* C1: for every rule the splitter JsRuleProcessor::ParseRule returns the
\* result of the first-match precedence @js:, then <js> before </js>, then
\* {{ with }}, then the plain rule; a rule with a JS marker is never a
\* template and the empty rule gives ("", "", false).  extractJsFromRule
\* cuts the rule at the same places and reports "no script" exactly in the
\* plain case.
C1_SplitterPrecedence ==
  pc = "split" =>
    /\ SplitAsClaimed(fnIn, fnOut.parse)
    /\ ((Occurs(fnIn, AtJs) \/ Occurs(fnIn, JsOpen)) /\ fnOut.parse.jsPart # fnIn
          => ~fnOut.parse.isTemplate)
    /\ (fnIn = <<>> => fnOut.parse = [xpathPart |-> <<>>, jsPart |-> <<>>,
                                      isTemplate |-> FALSE])
    /\ fnOut.extract.found = (fnOut.parse.jsPart # <<>> \/ Occurs(fnIn, AtJs)
                              \/ (Occurs(fnIn, JsOpen) /\ Occurs(fnIn, JsClose)
                                  /\ OpenBeforeClose(fnIn)))
    /\ (fnOut.extract.found => /\ fnOut.extract.preRule = fnOut.parse.xpathPart
                               /\ fnOut.extract.jsCode = fnOut.parse.jsPart)

\* a rule with @js: and a {{...}} span after it has been split
C1_Witness ==
  /\ pc = "split"
  /\ fnIn = AtJs \o TplOpen \o TplClose
  /\ fnOut.parse = [xpathPart |-> <<>>, jsPart |-> TplOpen \o TplClose,
                    isTemplate |-> FALSE]

\* what the claim says a part compiles to
ClaimedPart(p) ==
  LET terms == (IF p.cls # NoName
                  THEN <<<<"c","o","n","t","a","i","n","s","(","@","c","l","a","s","s",",",Q1>>
                         \o p.cls \o <<Q1, ")">>>>
                  ELSE <<>>)
               \o (IF p.id # NoName THEN <<<<"@", "i", "d", "=", Q1>> \o p.id \o <<Q1>>>>
                   ELSE <<>>)
               \o (IF p.attr # NoName
                     THEN <<IF p.val # NoName
                              THEN <<"@">> \o p.attr \o <<"=", Q1>> \o p.val \o <<Q1>>
                              ELSE <<"@">> \o p.attr>>
                     ELSE <<>>)
      joined == IF Len(terms) = 0 THEN <<>>
                ELSE <<"[">> \o terms[1]
                     \o Flatten([i \in 1..(Len(terms) - 1) |->
                                   <<" ", "a", "n", "d", " ">> \o terms[i + 1]])
                     \o <<"]">>
  IN <<"/", "/">> \o (IF p.tag = NoName THEN <<"*">> ELSE p.tag) \o joined

ClaimedXPath(sel) ==
  Flatten([i \in 1..Len(sel.parts) |-> ClaimedPart(sel.parts[i])])
  \o (IF sel.ext = NoName THEN <<>>
      ELSE IF sel.ext = ExtText THEN <<"/", "t", "e", "x", "t", "(", ")">>
      ELSE IF sel.ext \in {ExtHtml, ExtInnerHtml} THEN <<>>
      ELSE <<"/", "@">> \o sel.ext)

\* C2: every selector of the grammar compiles to // and the tag (or *) with
\* one predicate per part, the terms in the order class, id, attribute
\* joined by " and ", consecutive parts separated by //, then the suffix of
\* the attribute to extract.
C2_CompilesAsClaimed == pc = "compiled" => fnOut = ClaimedXPath(fnIn)

\* --- the pipeline LegadoRuleParser::ParseRule ---

\* the elements this run appended to the caller's vector
Appended == SubSeq(value, Len(value0) + 1, Len(value))

\* the engine of the base phase reported a failure to this run
BaseFailed == backendOut.called /\ backendOut.ret # 0

\* the run has reached the tail phase of a rule with a script tail
TailPhase == pc \in {"loop", "done"} /\ rule # <<>> /\ jsRule # <<>> /\ ~BaseFailed

FailedAt == {i \in 1..Len(evalLog) : evalLog[i].failed}

SetMax(S) == CHOOSE m \in S : \A n \in S : n <= m

ItemA == <<"A">>
ItemB == <<"B">>
ItemQuote == <<Q2, "\\">>

C6_CooperativeStop ==
  [][pc = "loop" /\ stop =>
       /\ pc' = "done" /\ ret' = 0
       /\ value' = value /\ Len(value') = Len(value0') + idx
       /\ evalLog' = evalLog /\ m_jsEngine' = m_jsEngine]_vars

\* a run of two items stopped after the first
C6_Witness ==
  /\ pc = "done" /\ stop /\ idx = 1 /\ Len(baseResult) = 2
  /\ Len(Appended) = 1 /\ Len(evalLog) = 1

MarkerFree(r) ==
  ~Occurs(r, AtJs) /\ ~Occurs(r, JsOpen) /\ ~Occurs(r, TplOpen) /\ ~Occurs(r, TplClose)

C8_EmptyBaseYieldsContent ==
  LET p == JsRuleProcessor_ParseRule(rule)
  IN pc = "done" /\ p.xpathPart = <<>> /\ ~p.isTemplate /\ ~stop /\ m_jsEngine.m_context =>
       /\ (p.jsPart = <<>> => value = <<html>>)
       /\ (p.jsPart # <<>> => /\ Len(evalLog) = 1
                              /\ evalLog[1].ran /\ evalLog[1].seen = Str(html))

\* --- the dispatch of the base phase ---

\* the base string of the run
BaseOf(r) == SplitRule(r).baseRule

\* the base phase of a run with a non-empty base string is over
BaseDispatched == pc \in {"loop", "done"} /\ rule # <<>> /\ BaseOf(rule) # <<>>

\* the selector kind the ordered prefix checks choose
ClaimedKind(base) ==
  IF HasPrefix(base, AtCss) THEN "css"
  ELSE IF HasPrefix(base, AtJson) \/ HasPrefix(base, DollarDot) THEN "json"
  ELSE IF HasPrefix(base, SlashSlash) \/ HasPrefix(base, AtXPath)
          \/ HasPrefix(base, AtXPathLower) THEN "xpath"
  ELSE "other"

\* the XPath body: the base itself, or the base without its 7 characters of
\* prefix
ClaimedXPathBody(base) ==
  IF HasPrefix(base, SlashSlash) THEN base ELSE substrFrom(base, 7)

DialectPrefixes == {AtXPath, AtXPathLower, AtCss, AtJson}

\* C11: a non-empty base goes to exactly one selector kind by the ordered
\* prefix checks: @css: to CSS with the rest as body, @json: or $. to
\* JSONPath, //, @XPath: and @xpath: to XPath with the prefix of either
\* spelling stripped; nothing reaches the XPath engine with a dialect prefix
\* still in it.
C11_DispatchByPrefix ==
  BaseDispatched =>
    /\ (ClaimedKind(BaseOf(rule)) = "css"
          => xpathCalls = <<CssToXPath(substrFrom(BaseOf(rule), 5))>>)
    /\ (ClaimedKind(BaseOf(rule)) = "json"
          => xpathCalls = <<>> /\ backendOut.called)
    /\ (ClaimedKind(BaseOf(rule)) = "xpath"
          => xpathCalls = <<ClaimedXPathBody(BaseOf(rule))>>)
    /\ \A i \in 1..Len(xpathCalls) :
         \A pre \in DialectPrefixes : ~Occurs(xpathCalls[i], pre)

\* a base without dialect prefix, without @ and without .
RawPassthrough(base) ==
  /\ ClaimedKind(base) = "other"
  /\ ~Occurs(base, <<"@">>) /\ ~Occurs(base, <<".">>)

\* C12: a non-empty base without dialect prefix, @ and . is a literal: the
\* run calls no XPath engine, its base result is [content], and without a
\* tail it returns [content].
C12_RawPassthroughIsLiteral ==
  BaseDispatched /\ RawPassthrough(BaseOf(rule)) =>
    /\ xpathCalls = <<>>
    /\ baseResult = <<html>>
    /\ (pc = "done" /\ jsRule = <<>> => ret = 0 /\ value = <<html>>)

\* a @css: base whose selector is empty after trimming
EmptyCssSelector(base) ==
  /\ HasPrefix(base, AtCss)
  /\ \A i \in 6..Len(base) : base[i] = " "

\* C13: compiling a CSS selector that is empty after trimming fails: the
\* run returns non-zero with HasError() true and sends nothing to the XPath
\* engine.
C13_EmptyCssFailsToCompile ==
  BaseDispatched /\ EmptyCssSelector(BaseOf(rule)) =>
    /\ pc = "done" /\ ret # 0
    /\ m_hasError
    /\ xpathCalls = <<>>

\* --- unpaired markers ---

\* <js> and </js> both occur and the first <js> lies before the first </js>
TagsPaired(r) == Occurs(r, JsOpen) /\ Occurs(r, JsClose) /\ OpenBeforeClose(r)

\* C14: in a rule without @js: whose </js> is missing or lies before its
\* <js>, the tags delimit no script: the split gives the whole rule as
\* base and no tail, and rule processing evaluates no script for the tags.
C14_UnpairedTagIsNoScript ==
  pc = "split" /\ ~Occurs(fnIn, AtJs) /\ ~TagsPaired(fnIn) =>
    /\ fnOut.split = [baseRule |-> fnIn, jsRule |-> <<>>]
    /\ fnOut.process.path # "js"

\* C15: a rule with {{ but without }}, @js: and <js> is not a template: the
\* contains-JS predicates say false and rule processing returns the rule
\* through the plain path, the template expander not being called.
C15_OpenBracesAloneIsPlain ==
  pc = "split" /\ Occurs(fnIn, TplOpen) /\ ~Occurs(fnIn, TplClose)
  /\ ~Occurs(fnIn, AtJs) /\ ~Occurs(fnIn, JsOpen) =>
    /\ ~fnOut.parserContainsJs
    /\ ~fnOut.engineContainsJs
    /\ fnOut.process.path = "plain" /\ fnOut.process.val = fnIn

\* --- the variable map and the host object java ---

\* C16: whenever a script may start, every key of the variable map has the
\* map's value in the script engine's global scope: each write to the map
\* (setVariable, java.put) has been mirrored.
C16_GlobalsMirrorVariables ==
  pc = "engine" /\ m_jsEngine.m_context =>
    \A k \in Keys : m_jsEngine.m_variables[k].def
                      => m_jsEngine.globals[k] = m_jsEngine.m_variables[k]

\* the entries that write key k of the variable map, and what they write
WritesK(i) ==
  \/ evalLog[i].op = "setVariable"
  \/ evalLog[i].op = "eval" /\ ~evalLog[i].failed /\ evalLog[i].code \in {ScrPutV, ScrPutW}

WrittenK(i) ==
  IF evalLog[i].op = "setVariable" THEN evalLog[i].code ELSE <<evalLog[i].code[2]>>

WritesBefore(i) == {j \in 1..(i - 1) : WritesK(j)}

ReadsK(i) == evalLog[i].op = "eval" /\ evalLog[i].code = ScrGet

IsAjax(i) == evalLog[i].op = "eval" /\ evalLog[i].code \in {ScrAjax1, ScrAjax2}
IsPost(i) == evalLog[i].op = "eval" /\ evalLog[i].code \in {ScrPost1, ScrPost2}
UrlOf(i) == <<evalLog[i].code[2]>>

\* C19: without callback java.ajax and java.post return normally, each with
\* its placeholder, the same on every call whatever the arguments; with a
\* callback the script receives what the callback returns.
C19_AjaxWithoutCallbackIsStable ==
  pc = "engine" /\ m_jsEngine.m_context =>
    /\ \A i \in 1..Len(evalLog) :
         IsAjax(i) \/ IsPost(i) =>
           /\ ~evalLog[i].failed
           /\ (evalLog[i].cb # CbNone =>
                 evalLog[i].val = CallbackReply(evalLog[i].cb,
                                                IF IsAjax(i) THEN "G" ELSE "P",
                                                UrlOf(i),
                                                IF IsAjax(i) THEN <<>> ELSE <<"b">>))
    /\ \A i, j \in 1..Len(evalLog) :
         /\ evalLog[i].cb = CbNone /\ evalLog[j].cb = CbNone
         /\ (IsAjax(i) /\ IsAjax(j)) \/ (IsPost(i) /\ IsPost(j))
         => evalLog[i].val = evalLog[j].val /\ evalLog[i].val # <<>>

\* two calls of java.ajax with different arguments and no callback
C19_Witness ==
  /\ pc = "engine" /\ m_jsEngine.m_context /\ Len(evalLog) = 2
  /\ evalLog[1].code = ScrAjax1 /\ evalLog[1].cb = CbNone
  /\ evalLog[2].code = ScrAjax2 /\ evalLog[2].cb = CbNone
  /\ evalLog[1].val = MockGet /\ evalLog[2].val = MockGet

\* --- the error state after a run ---

\* a script stage of this run failed: the script of a JSONPath base, or the
\* tail script on some item
ScriptStageFailed ==
  \/ FailedAt # {}
  \/ backendOut.called /\ xpathCalls = <<>> /\ backendOut.ret # 0

\* some stage of this run failed
StageFailed == ScriptStageFailed \/ BaseFailed \/ ret # 0

C20_JsonPathThenTail ==
  /\ (BaseDispatched /\ ClaimedKind(BaseOf(rule)) = "json" /\ ~BaseFailed
        => Len(baseResult) = 1)
  /\ (pc = "done" /\ rule = JsonTrimRule /\ html = JsonArr /\ ~stop
      /\ m_jsEngine.m_context
        => baseResult = <<PaddedT>> /\ Appended = <<<<"T">>>>)

\* --- the counters of convert_legado_to_reader ---

\* the source is of an unsupported type or disabled
IsSkippable(source) ==
  \/ source.bookSourceType.def /\ source.bookSourceType.val # 0
  \/ source.enabled = "false"

CountOf(items, P(_)) == Cardinality({i \in 1..Len(items) : P(items[i])})

IsSkipped(source) == IsSkippable(source)
IsFailed(source) == ~IsSkippable(source) /\ ~convert_single_legado_source(source).ret
IsConverted(source) == convert_single_legado_source(source).ret

\* C21: when convert_legado_to_reader has returned, the three counters sum
\* to the number of sources of the input, *count is success_count and at
\* most MAX_BOOKSRC_COUNT, TRUE is returned iff a source succeeded,
\* skipped_count counts the sources of an unsupported type or disabled, and
\* failed_count the sources whose conversion failed for another reason.
C21_EverySourceCountedOnce ==
  pc = "convDone" =>
    /\ fnOut.result.success_count + fnOut.result.failed_count
         + fnOut.result.skipped_count = Len(fnIn.items)
    /\ fnOut.count = fnOut.result.success_count
    /\ fnOut.count <= MAX_BOOKSRC_COUNT
    /\ (fnOut.ret <=> fnOut.result.success_count >= 1)
    /\ fnOut.result.skipped_count = CountOf(fnIn.items, IsSkipped)
    /\ fnOut.result.failed_count = CountOf(fnIn.items, IsFailed)

\* --- the output vector of a run ---

\* what this run produced: the base result, or with a script tail one
\* output per processed item
RunOutput ==
  IF jsRule = <<>> THEN baseResult
  ELSE [i \in 1..Len(evalLog) |->
          IF evalLog[i].failed THEN evalLog[i].item ELSE evalLog[i].val]

\* C22: after a successful run of a non-empty rule the caller's vector
\* holds exactly what this run produced, whatever it held before the call
\* and whether or not the rule has a script tail.
C22_OutputIsThisRunOnly ==
  pc = "done" /\ ret = 0 /\ rule # <<>> => value = RunOutput

\* --- the JSOUP translator ---

\* the XPath position of the element with the Legado index i
ClaimedPosition(index) ==
  IF index = <<>> THEN <<>>
  ELSE IF index = <<"0">> THEN <<"[", "1", "]">>
  ELSE IF index = <<"1">> THEN <<"[", "2", "]">>
  ELSE <<"[", "?", "]">>

ClaimedJsoupToken(f, first) ==
  IF f.type = KwClass
    THEN XpClassEq \o f.name \o XpQuoteClose \o ClaimedPosition(f.index)
  ELSE IF f.type = KwId THEN XpIdEq \o f.name \o XpQuoteClose
  ELSE IF f.type = KwTag
    THEN (IF first THEN <<>> ELSE SlashSlash) \o f.name \o ClaimedPosition(f.index)
  ELSE IF f.type = KwText THEN XpText
  ELSE IF f.type = KwHref THEN XpHref
  ELSE IF f.type = KwSrc THEN XpSrc
  ELSE <<>>

RECURSIVE ClaimedJsoupTokens(_, _)
ClaimedJsoupTokens(tokens, first) ==
  IF tokens = <<>> THEN <<>>
  ELSE ClaimedJsoupToken(JsoupFields(Head(tokens)), first)
         \o ClaimedJsoupTokens(Tail(tokens), FALSE)

ClaimedJsoup(r) == SlashSlash \o ClaimedJsoupTokens(strtok(r), TRUE)

XPathOfRuleJsoup ==
  SlashSlash \o XpClassEq \o <<"n">> \o XpQuoteClose \o <<"[", "1", "]">>
    \o SlashSlash \o <<"a">> \o XpText

\* C24: a translated JSOUP rule is // followed by the translations of its
\* tokens from left to right: class.N is *[@class='N'], id.N is *[@id='N'],
\* tag.N is N (after // when it is not the first token), text, href and
\* src are /text(), /@href and /@src, and an index i is the position i+1
\* of the same element; class.n.0@tag.a@text is //*[@class='n'][1]//a/text().
C24_JsoupTranslation ==
  pc = "translated" /\ fnOut.jsoup.ret
    => /\ fnOut.jsoup.xpath_out = ClaimedJsoup(fnIn)
       /\ (fnIn = RuleJsoup => fnOut.jsoup.xpath_out = XPathOfRuleJsoup)

\* --- the converter emits no JavaScript ---

HasJsMarker(r) == Occurs(r, AtJs) \/ Occurs(r, JsOpen)

\* the mandatory rules of a source; the rule of the chapter title is
\* chapterName, or chapterList when there is no chapterName
MandatoryRules(s) ==
  {s.name, s.bookUrl, s.author, ChapterTitleRule(s), s.chapterUrl, s.content}

\* the optional rule is there, not empty, and converts
OptionalConverted(r) ==
  r.def /\ r.val # <<>> /\ convert_legado_rule_to_xpath(r.val, <<>>).ret

\* the sources taken from the input so far
Processed ==
  IF fnIn.kind = "array" THEN fnOut.i
  ELSE IF fnIn.kind = "object" /\ pc # "conv" THEN 1
  ELSE 0

\* the sources emitted so far, in the order of the output array
Emitted == SelectSeq(SubSeq(fnIn.items, 1, Processed), IsConverted)

\* basics present, type supported, enabled, every mandatory rule converts
Convertible(s) ==
  /\ s.basics /\ ~IsSkippable(s)
  /\ \A r \in MandatoryRules(s) :
       r.def => convert_legado_rule_to_xpath(r.val, <<>>).ret

EmittedFlag(b, flag, r) == b[flag] = (IF OptionalConverted(r) THEN 1 ELSE 0)

\* C25: the sources written to the output array are the convertible ones;
\* no XPath field of an emitted source contains @js: or <js>, no mandatory
\* rule of an emitted source contains JS, and each enable flag of an
\* emitted source is 1 exactly when its optional rule was non-empty and
\* converted, 0 otherwise.
C25_NoJavaScriptEmitted ==
  pc # "conv" =>
    /\ fnOut.count = Len(Emitted)
    /\ \A i \in 1..Processed :
         Convertible(fnIn.items[i]) <=> IsConverted(fnIn.items[i])
    /\ \A k \in 1..Len(Emitted) :
         /\ \A f \in XPathFields : ~HasJsMarker(fnOut.bs[k - 1][f])
         /\ \A r \in MandatoryRules(Emitted[k]) : r.def => ~HasJsMarker(r.val)
         /\ EmittedFlag(fnOut.bs[k - 1], "enable_chapter_next", Emitted[k].nextTocUrl)
         /\ EmittedFlag(fnOut.bs[k - 1], "enable_content_next", Emitted[k].nextContentUrl)
         /\ EmittedFlag(fnOut.bs[k - 1], "enable_chapter_page", Emitted[k].tocUrl)

\* a source with JS in its name rule is left out, and the next one is
\* emitted with the flags of its unconvertible optional rules at 0
C25_Witness ==
  /\ pc = "convDone" /\ fnIn.kind = "array" /\ fnIn.items = <<SrcJsName, SrcOptJs>>
  /\ fnOut.ret /\ fnOut.count = 1
  /\ fnOut.bs[0].enable_chapter_next = 0 /\ fnOut.bs[0].chapter_next_url_xpath = <<>>
  /\ fnOut.bs[0].enable_content_next = 1
  /\ fnOut.bs[0].content_next_url_xpath = RuleXPath
  /\ fnOut.bs[0].enable_chapter_page = 0

\* --- the two splitters ---

\* the rule is no template, and its first </js> is not ahead of its first <js>
SplittersComparable(r) ==
  /\ ~(Occurs(r, TplOpen) /\ Occurs(r, TplClose))
  /\ ~(Occurs(r, JsOpen) /\ Occurs(r, JsClose)
       /\ find(r, JsClose, 0) < find(r, JsOpen, 0))

\* C26: on a rule that does not contain both {{ and }} and in which </js>
\* does not come before <js>, LegadoRuleParser::SplitRule and
\* JsRuleProcessor::ParseRule return the same base and the same tail.
C26_SplittersAgree ==
  pc = "split" /\ SplittersComparable(fnIn) =>
    /\ fnOut.split.baseRule = fnOut.parse.xpathPart
    /\ fnOut.split.jsRule = fnOut.parse.jsPart
    /\ ~fnOut.parse.isTemplate

\* the rule <js>a</js>, which both split into no base and the script a
C26_Witness ==
  /\ pc = "split" /\ fnIn = JsOpen \o <<"a">> \o JsClose
  /\ SplittersComparable(fnIn)
  /\ fnOut.split = [baseRule |-> <<>>, jsRule |-> <<"a">>]
  /\ fnOut.parse.xpathPart = <<>> /\ fnOut.parse.jsPart = <<"a">>

\* --- the error state of the engine ---

LastEval == evalLog[Len(evalLog)]

\* C27: the error state of the engine is that of the most recent
\* evaluation, the evaluations made by setVariable, by setResult and for
\* the expressions of a template included: hasError() tells whether that
\* evaluation failed and getLastError() is its message or empty, whatever
\* an earlier evaluation left; 1 + 1 succeeds, an undefined identifier is a
\* ReferenceError, setVariable fails on a value holding a double quote,
\* setResult never fails on an engine with a context.
C27_ErrorStateIsOfLastEval ==
  evalLog # <<>> =>
    /\ m_jsEngine.m_hasError = LastEval.failed
    /\ (m_jsEngine.m_hasError <=> m_jsEngine.m_lastError # ErrNone)
    /\ (~m_jsEngine.m_context
          => m_jsEngine.m_hasError /\ m_jsEngine.m_lastError = ErrNoContext)
    /\ (m_jsEngine.m_context /\ LastEval.op = "eval" /\ LastEval.code = ScrSum
          => ~m_jsEngine.m_hasError /\ m_jsEngine.m_lastError = ErrNone)
    /\ (m_jsEngine.m_context /\ LastEval.op = "eval" /\ LastEval.code = ScrUndefined
          => m_jsEngine.m_hasError /\ m_jsEngine.m_lastError = ErrReference)
    /\ (m_jsEngine.m_context /\ LastEval.op = "setVariable"
          => (m_jsEngine.m_hasError <=> LastEval.code = <<Q2>>))
    /\ (m_jsEngine.m_context /\ LastEval.op = "setResult" => ~m_jsEngine.m_hasError)

\* a template whose first expression failed and whose last one succeeded
C27_Witness ==
  /\ m_jsEngine.m_context /\ Len(evalLog) = 2
  /\ evalLog[1].span /\ evalLog[1].code = ScrUndefined /\ evalLog[1].failed
  /\ evalLog[1].val = <<>>
  /\ evalLog[2].span /\ evalLog[2].code = ScrSum /\ ~evalLog[2].failed
  /\ ~m_jsEngine.m_hasError /\ m_jsEngine.m_lastError = ErrNone

\* --- the binding of result across calls of processRule ---

\* the calls before call i that bound result: a non-empty rule with a
\* non-empty result
BoundBefore(i) ==
  {j \in 1..(i - 1) : evalLog[j].rule # <<>> /\ evalLog[j].result # <<>>}

\* what the script of call i finds in the variable result
ClaimedSeen(i) ==
  IF evalLog[i].result # <<>> THEN Str(evalLog[i].result)
  ELSE IF BoundBefore(i) = {} THEN Undef
  ELSE Str(evalLog[SetMax(BoundBefore(i))].result)

ReturnsResult(r) == r \in {AtJs \o ScrResult, JsOpen \o ScrResult \o JsClose}

HarnessBoundBefore(i) == {j \in 1..(i - 1) : fnOut.log[j].result # <<>>}

HarnessSeen(i) ==
  IF fnOut.log[i].result # <<>> THEN Str(fnOut.log[i].result)
  ELSE IF HarnessBoundBefore(i) = {} THEN Undef
  ELSE Str(fnOut.log[SetMax(HarnessBoundBefore(i))].result)

\* C28: processRule(rule, r) with an empty rule returns r and leaves the
\* engine as it was; with a non-empty rule the script finds result bound
\* to r when r is not empty, and otherwise as the last call that bound it
\* left it (unbound when there was none): the script `result` returns
\* that string, or fails when result is unbound. evaluate_js of the test
\* harness binds result the same way.
C28_ResultBindingPersists ==
  /\ \A i \in 1..Len(evalLog) :
       /\ (evalLog[i].rule = <<>>
             => evalLog[i].val = evalLog[i].result
                /\ evalLog[i].after = evalLog[i].before)
       /\ (evalLog[i].rule # <<>> /\ evalLog[i].before.m_context
             => evalLog[i].after.result = ClaimedSeen(i))
       /\ (ReturnsResult(evalLog[i].rule) /\ evalLog[i].before.m_context
             => /\ evalLog[i].val = ClaimedSeen(i).val
                /\ evalLog[i].after.m_hasError = ~ClaimedSeen(i).def)
  /\ \A i \in 1..Len(fnOut.log) :
       fnOut.log[i].code = ScrResult
         => /\ fnOut.log[i].val = HarnessSeen(i).val
            /\ fnOut.log[i].failed = ~HarnessSeen(i).def

\* a script that returns the result bound by the call before
C28_Witness ==
  /\ Len(evalLog) = 2 /\ m_jsEngine.m_context
  /\ evalLog[1].rule = AtJs \o ScrResult /\ evalLog[1].result = <<"A">>
  /\ evalLog[1].val = <<"A">>
  /\ evalLog[2].rule = JsOpen \o ScrResult \o JsClose /\ evalLog[2].result = <<>>
  /\ evalLog[2].val = <<"A">>

\* --- the tokens CssToXPath recognises ---

\* the tokens of a part after its tag: each starts at a . # or [
RECURSIVE CssTokens(_)
CssTokens(s) ==
  IF s = <<>> THEN <<>>
  ELSE <<SubSeq(s, 1, ScanEnd(s, 1, TokStops))>>
         \o CssTokens(substrFrom(s, ScanEnd(s, 1, TokStops)))

IsTokenAt(toks, k, mark) == k <= Len(toks) /\ toks[k][1] = mark

\* how many tokens are recognised: a class first, an id next, an attribute
\* last, each at most once
RecognisedAfterId(toks, n) == IF IsTokenAt(toks, n + 1, "[") THEN n + 1 ELSE n
RecognisedAfterClass(toks, n) ==
  RecognisedAfterId(toks, IF IsTokenAt(toks, n + 1, "#") THEN n + 1 ELSE n)
Recognised(toks) ==
  SubSeq(toks, 1, RecognisedAfterClass(toks, IF IsTokenAt(toks, 1, ".") THEN 1 ELSE 0))

\* the part without the tokens that are not recognised
RecognisedPartFrom(p, tagEnd) ==
  SubSeq(p, 1, tagEnd) \o Flatten(Recognised(CssTokens(substrFrom(p, tagEnd))))
RecognisedPart(p) == RecognisedPartFrom(p, ScanEnd(p, 0, TokStops))

RECURSIVE RecognisedParts(_)
RecognisedParts(ps) ==
  IF ps = <<>> THEN <<>>
  ELSE RecognisedPart(Head(ps)) \o <<" ">> \o RecognisedParts(Tail(ps))

RecognisedCss(s) == RecognisedParts(Words(s))

CssTwoClasses == TagDiv \o <<".", "a", ".", "b">>
CssIdThenClass == TagDiv \o <<"#", "i", ".", "a">>
CssTwoAttrs == TagDiv \o <<"[", "x", "]", "[", "y", "=", "1", "]">>
XpDivClassA == SlashSlash \o TagDiv \o Tail(XpClassContains) \o <<"a", "'", ")", "]">>
XpDivIdI == SlashSlash \o TagDiv \o <<"[", "@", "i", "d", "=", "'", "i", "'", "]">>
XpDivAttrX == SlashSlash \o TagDiv \o <<"[", "@", "x", "]">>

\* C29: CssToXPath returns a non-empty XPath for every input, and what it
\* returns is what it returns for the same selector with, in every part,
\* only the leading class, id and attribute tokens that come in this order,
\* each at most once: div.a.b compiles as div.a, div#i.a as div#i,
\* div[x][y=1] as div[x].
C29_UnrecognisedTokensAreOmitted ==
  pc = "compiled" =>
    /\ fnOut # <<>>
    /\ fnOut = CssToXPath(RecognisedCss(fnIn))
    /\ (fnIn = CssTwoClasses => fnOut = XpDivClassA)
    /\ (fnIn = CssIdThenClass => fnOut = XpDivIdI)
    /\ (fnIn = CssTwoAttrs => fnOut = XpDivAttrX)

C29_Witness ==
  pc = "compiled" /\ fnIn = CssTwoClasses /\ fnOut = XpDivClassA

\* ------------------------------------------------------------------------
\* The life of the JsRuleProcessor singleton and of its JsEngine
\* ------------------------------------------------------------------------
ErrCreateContext == "Failed to create JS context"

\* JsEngine::JsEngine(): no runtime, no context, so no script variable
JsEngine_JsEngine ==
  [m_initialized |-> FALSE, m_lastError |-> ErrNone, result |-> Undef,
   title |-> Undef, chapterUrl |-> Undef, book |-> Undef]

\* what JS_NewRuntime and JS_NewContext can do
InitOutcomes == {"ok", "runtime", "context"}

\* JsEngine::initialize
JsEngine_initialize(e, outcome) ==
  IF e.m_initialized THEN [ret |-> TRUE, eng |-> e]
  ELSE IF outcome = "runtime"
    THEN [ret |-> FALSE, eng |-> [e EXCEPT !.m_lastError = ErrCreateRuntime]]
  ELSE IF outcome = "context"
    THEN [ret |-> FALSE, eng |-> [e EXCEPT !.m_lastError = ErrCreateContext]]
  ELSE [ret |-> TRUE, eng |-> [e EXCEPT !.m_initialized = TRUE]]

\* JsEngine::shutdown: the context and the runtime are freed, and the script
\* variables with them
JsEngine_shutdown(e) ==
  [e EXCEPT !.m_initialized = FALSE, !.result = Undef, !.title = Undef,
            !.chapterUrl = Undef, !.book = Undef]

\* JsEngine::setVariable(name, value) for the names title and chapterUrl
JsEngine_setNamed(e, name, v) ==
  IF ~e.m_initialized THEN e ELSE [e EXCEPT ![name] = Str(v)]

\* JsEngine::setBookInfo: the global variable book
JsEngine_setBookInfo(e, bookName, bookAuthor, bookUrl) ==
  IF ~e.m_initialized THEN e
  ELSE [e EXCEPT !.book = Str([name |-> bookName, author |-> bookAuthor,
                               bookUrl |-> bookUrl])]

\* The process: s_instance (0 is nullptr, otherwise the number of the
\* JsRuleProcessor object), the fields m_engine (0 is nullptr, otherwise the
\* number of the JsEngine object), m_initialized and m_lastError of that
\* object, the JsEngine eng that m_engine points to, and how many objects of
\* each class were created so far.
NoWorld ==
  [s_instance |-> 0, m_engine |-> 0, m_initialized |-> FALSE,
   m_lastError |-> ErrNone, eng |-> JsEngine_JsEngine, objects |-> 0,
   engines |-> 0]

\* JsRuleProcessor::Instance
Instance(w) ==
  IF w.s_instance = 0
    THEN [w EXCEPT !.s_instance = w.objects + 1, !.objects = w.objects + 1,
                   !.m_engine = 0, !.m_initialized = FALSE,
                   !.m_lastError = ErrNone, !.eng = JsEngine_JsEngine]
  ELSE w

\* JsRuleProcessor::ReleaseInstance with the destructor: the engine is shut
\* down and deleted with the object
ReleaseInstance(w) ==
  IF w.s_instance # 0
    THEN [w EXCEPT !.s_instance = 0, !.m_engine = 0, !.m_initialized = FALSE,
                   !.m_lastError = ErrNone, !.eng = JsEngine_JsEngine]
  ELSE w

\* if (m_initialized) return true;
AlreadyInitialized_Never(w) == FALSE
AlreadyInitialized(w) == w.m_initialized

JsRuleProcessor_InitializeOf(w, r) ==
  IF ~r.ret
    THEN [ret |-> FALSE,
          w |-> [w EXCEPT !.m_lastError = r.eng.m_lastError, !.m_engine = 0,
                          !.eng = JsEngine_JsEngine,
                          !.engines = w.engines + 1]]
  ELSE [ret |-> TRUE,
        w |-> [w EXCEPT !.m_engine = w.engines + 1, !.eng = r.eng,
                        !.engines = w.engines + 1, !.m_initialized = TRUE]]

\* JsRuleProcessor::Initialize
JsRuleProcessor_Initialize(w, outcome) ==
  IF AlreadyInitialized(w) THEN [ret |-> TRUE, w |-> w]
  ELSE JsRuleProcessor_InitializeOf(w, JsEngine_initialize(JsEngine_JsEngine, outcome))

\* m_engine && m_initialized
Guarded(w) == w.m_engine # 0 /\ w.m_initialized

\* the object as ExecuteJs and EvaluateTemplate take it, and the process
\* after they return
ProcessorOf(w) ==
  [eng |-> [w.eng EXCEPT !.m_initialized = w.eng.m_initialized /\ Guarded(w)],
   m_lastError |-> w.m_lastError]

WorldOf(w, p) ==
  [w EXCEPT !.m_lastError = p.m_lastError,
            !.eng = IF Guarded(w) THEN p.eng ELSE w.eng]

\* JsRuleProcessor::SetBookInfo
SetBookInfo(w, name, author, url) ==
  IF Guarded(w)
    THEN [w EXCEPT !.eng = JsEngine_setBookInfo(w.eng, name, author, url)]
  ELSE w

\* JsRuleProcessor::SetChapterInfo
SetChapterInfo(w, title, url) ==
  IF Guarded(w)
    THEN [w EXCEPT !.eng = JsEngine_setNamed(JsEngine_setNamed(w.eng, "title", title),
                                             "chapterUrl", url)]
  ELSE w

LifeRules ==
  {AtJs \o ScrSum, XPathA \o AtJs \o ScrResult, TplOpen \o ScrSum \o TplClose,
   XPathA}
LifeBackend ==
  {[ret |-> 1, out |-> <<>>], [ret |-> 0, out |-> <<>>],
   [ret |-> 0, out |-> <<ItemA>>]}
LifeTemplates ==
  {<<"a">> \o TplOpen \o ScrSum \o TplClose, TplOpen \o ScrResult \o TplClose}
LifeInputs == {<<>>, ItemA}
LifeCodes == {ScrSum}

\* the process as the state holds it
World ==
  [s_instance |-> fnOut.s_instance, m_engine |-> fnOut.m_engine,
   m_initialized |-> fnOut.m_initialized, m_lastError |-> m_lastError,
   eng |-> m_jsEngine, objects |-> fnOut.objects, engines |-> fnOut.engines]

NoCall == [rule |-> <<>>, value |-> <<>>, ret |-> 0, log |-> <<>>, xpath |-> <<>>]

\* In this specification m_jsEngine is the JsEngine that m_engine points to,
\* m_lastError is JsRuleProcessor::m_lastError, fnOut holds the rest of the
\* process with the value of the last call (returned, out) and the process
\* at its entry (before), and fnIn is a JsEngine that a caller constructed
\* itself, with the string that the last call, if it was evaluate, returned.
LifeStore(op, before, w, returned, out, call) ==
  /\ pc' = op /\ m_jsEngine' = w.eng /\ m_lastError' = w.m_lastError
  /\ fnOut' = [s_instance |-> w.s_instance, m_engine |-> w.m_engine,
               m_initialized |-> w.m_initialized, objects |-> w.objects,
               engines |-> w.engines, returned |-> returned, out |-> out,
               before |-> before]
  /\ rule' = call.rule /\ value' = call.value /\ ret' = call.ret
  /\ evalLog' = call.log /\ xpathCalls' = call.xpath
  /\ fnIn' = [eng |-> fnIn.eng, val |-> <<>>, code |-> <<>>]
  /\ UNCHANGED <<html, value0, stop, baseResult, jsRule, idx, m_hasError,
                 backendOut, runs>>

InitLife ==
  /\ FrameInit /\ pc = "start" /\ m_jsEngine = JsEngine_JsEngine
  /\ fnOut = [s_instance |-> 0, m_engine |-> 0, m_initialized |-> FALSE,
              objects |-> 0, engines |-> 0, returned |-> 0, out |-> <<>>,
              before |-> NoWorld]
  /\ fnIn = [eng |-> JsEngine_JsEngine, val |-> <<>>, code |-> <<>>]

\* a call reaches the object through JsRuleProcessor::Instance()
CanEnter == fnOut.s_instance # 0 \/ fnOut.objects < MaxInstances

InstanceCall ==
  /\ CanEnter
  /\ \E w \in {Instance(World)} :
       LifeStore("Instance", World, w, w.s_instance, <<>>, NoCall)

ReleaseInstanceCall ==
  LifeStore("ReleaseInstance", World, ReleaseInstance(World), 0, <<>>, NoCall)

InitializeCall ==
  /\ CanEnter
  /\ \E outcome \in InitOutcomes :
     \E w \in {Instance(World)} :
       /\ AlreadyInitialized(w) \/ w.engines < MaxEngines
       /\ \E r \in {JsRuleProcessor_Initialize(w, outcome)} :
            LifeStore("Initialize", w, r.w, r.ret, <<>>, NoCall)

LifeProcessRuleCall ==
  /\ CanEnter
  /\ \E r \in LifeRules, b \in LifeBackend :
     \E w \in {Instance(World)} :
     \E res \in {ProcessRule(ProcessorOf(w), r, b)} :
       /\ (res.xpath = <<>> => b = [ret |-> 1, out |-> <<>>])
       /\ LifeStore("ProcessRule", w, WorldOf(w, res.p), res.ret, <<>>,
                    [rule |-> r, value |-> res.results, ret |-> res.ret,
                     log |-> res.log, xpath |-> res.xpath])

LifeProcessTemplateCall ==
  /\ CanEnter
  /\ \E t \in LifeTemplates, input \in LifeInputs :
     \E w \in {Instance(World)} :
     \E res \in {EvaluateTemplate(ProcessorOf(w), t, input)} :
       LifeStore("ProcessTemplate", w, WorldOf(w, res.p), 0, res.out,
                 [NoCall EXCEPT !.rule = t, !.log = res.log])

SetBookInfoCall ==
  /\ CanEnter
  /\ \E name \in {ItemA} :
     \E w \in {Instance(World)} :
       LifeStore("SetBookInfo", w, SetBookInfo(w, name, <<>>, <<>>), 0, <<>>, NoCall)

SetChapterInfoCall ==
  /\ CanEnter
  /\ \E title \in {ItemA} :
     \E w \in {Instance(World)} :
       LifeStore("SetChapterInfo", w, SetChapterInfo(w, title, <<>>), 0, <<>>, NoCall)

\* a call on the caller's engine leaves the singleton as it is; the values
\* of the last call on the singleton are no longer the last call's
LifeEngineFrame ==
  /\ fnOut' = [fnOut EXCEPT !.returned = 0, !.out = <<>>, !.before = World]
  /\ rule' = <<>> /\ value' = <<>> /\ ret' = 0 /\ evalLog' = <<>>
  /\ xpathCalls' = <<>>
  /\ UNCHANGED <<html, value0, stop, baseResult, jsRule, idx, m_hasError,
                 m_lastError, m_jsEngine, backendOut, runs>>

\* JsEngine::initialize, shutdown and evaluate on the caller's own engine
EngineInitialize ==
  /\ \E outcome \in InitOutcomes :
     \E r \in {JsEngine_initialize(fnIn.eng, outcome)} :
       fnIn' = [eng |-> r.eng, val |-> <<>>, code |-> <<>>]
  /\ pc' = "JsEngine::initialize" /\ LifeEngineFrame

EngineShutdown ==
  /\ fnIn' = [eng |-> JsEngine_shutdown(fnIn.eng), val |-> <<>>, code |-> <<>>]
  /\ pc' = "JsEngine::shutdown" /\ LifeEngineFrame

EngineEvaluate ==
  /\ \E code \in LifeCodes :
     \E r \in {JsEngine_evaluate(fnIn.eng, code)} :
       fnIn' = [eng |-> r.eng, val |-> r.val, code |-> code]
  /\ pc' = "JsEngine::evaluate" /\ LifeEngineFrame

NextLife ==
  \/ InstanceCall \/ ReleaseInstanceCall \/ InitializeCall
  \/ LifeProcessRuleCall \/ LifeProcessTemplateCall
  \/ SetBookInfoCall \/ SetChapterInfoCall
  \/ EngineInitialize \/ EngineShutdown \/ EngineEvaluate

SpecLife == InitLife /\ [][NextLife]_vars

\* --- the template run of JsRuleProcessor::ProcessRule ---

\* the processor as the variables hold it
Processor == [eng |-> m_jsEngine, m_lastError |-> m_lastError]

\* C9: a run of a rule the splitter marks as a template calls no selector
\* engine and returns exactly one element, the template expanded, also when
\* the expansion is the empty string.
C9_TemplateReturnsOneElement ==
  pc = "done" /\ JsRuleProcessor_ParseRule(rule).isTemplate
    => /\ xpathCalls = <<>> /\ ~backendOut.called
       /\ ret = 0
       /\ value = <<EvaluateTemplate(Processor, rule, <<>>).out>>

\* --- the template expander QuickJsEngine::processTemplate ---

\* the length of the part of s before its first pat
CutAt(s, pat) ==
  CHOOSE k \in 0..Len(s) :
    FirstCut(s, pat, SubSeq(s, 1, k), SubSeq(s, k + Len(pat) + 1, Len(s)))

\* the expansion as claimed: the text before the first {{ is kept; if no }}
\* follows, the rest is kept with the {{; otherwise the text up to the next
\* }} is replaced by its value and the text after the }} is expanded
RECURSIVE ClaimedExpand(_, _)
ClaimedSpanAt(e, pre, rest, k) ==
  pre \o eval(e, SubSeq(rest, 1, k)).val
      \o ClaimedExpand(e, SubSeq(rest, k + 3, Len(rest)))

ClaimedSpan(e, pre, rest) ==
  IF ~Occurs(rest, TplClose) THEN pre \o TplOpen \o rest
  ELSE ClaimedSpanAt(e, pre, rest, CutAt(rest, TplClose))

ClaimedExpandAt(e, t, k) ==
  ClaimedSpan(e, SubSeq(t, 1, k), SubSeq(t, k + 3, Len(t)))

ClaimedExpand(e, t) ==
  IF ~Occurs(t, TplOpen) THEN t ELSE ClaimedExpandAt(e, t, CutAt(t, TplOpen))

TmplSum == TextA \o TplOpen \o ScrSum \o TplClose \o TextB
TmplOpenOnly == TextA \o TplOpen \o TextX
TmplBraces == TplOpen \o TextB \o TplClose

RECURSIVE ClaimedSpans(_)
ClaimedSpansAfter(rest) ==
  IF ~Occurs(rest, TplClose) THEN <<>>
  ELSE <<SubSeq(rest, 1, CutAt(rest, TplClose))>>
         \o ClaimedSpans(SubSeq(rest, CutAt(rest, TplClose) + 3, Len(rest)))

ClaimedSpans(t) ==
  IF ~Occurs(t, TplOpen) THEN <<>>
  ELSE ClaimedSpansAfter(SubSeq(t, CutAt(t, TplOpen) + 3, Len(t)))

ExprsOf(log) == [i \in 1..Len(log) |-> log[i].expr]

TmplSelector == TplOpen \o AtCss \o TextA \o TplClose

\* C23: every terminated {{expr}} span of a template is evaluated by the
\* script engine, whatever expr is, and replaced by the value: the
\* expressions evaluated by JsRuleProcessor::EvaluateTemplate and by
\* QuickJsEngine::processTemplate are those of the terminated spans, in
\* order, and the span {{@css:a}} does not come back with its braces.
C23_EveryTerminatedSpanIsEvaluated ==
  pc = "expanded"
    => /\ ExprsOf(fnOut.evaluated) = ClaimedSpans(fnIn)
       /\ ExprsOf(fnOut.spans) = ClaimedSpans(fnIn)
       /\ (fnIn = TmplSelector => fnOut.evaluate # TmplSelector)

\* --- the life of the singleton and of its engine ---
ProcessorCalls == {"ProcessRule", "ProcessTemplate", "SetBookInfo", "SetChapterInfo"}

\* no context, so no script variable
HasNoVariables(e) ==
  ~e.result.def /\ ~e.title.def /\ ~e.chapterUrl.def /\ ~e.book.def

\* the rule has a script part that ProcessRule hands to ExecuteJs
IsJsRule(r) ==
  /\ ~JsRuleProcessor_ParseRule(r).isTemplate
  /\ JsRuleProcessor_ParseRule(r).jsPart # <<>>

\* the engine is touched only through an initialized object
EngineUsedOnlyWhenInitialized ==
  /\ fnOut.m_initialized <=> fnOut.m_engine # 0
  /\ fnOut.m_initialized <=> m_jsEngine.m_initialized
  /\ ~m_jsEngine.m_initialized => HasNoVariables(m_jsEngine)
  /\ ~fnIn.eng.m_initialized => HasNoVariables(fnIn.eng)
  /\ pc \in ProcessorCalls =>
       /\ m_jsEngine # fnOut.before.eng =>
            Guarded(fnOut.before) /\ fnOut.before.eng.m_initialized
       /\ (\E i \in DOMAIN evalLog : ~evalLog[i].failed) =>
            Guarded(fnOut.before) /\ fnOut.before.eng.m_initialized

InitializeIsIdempotent ==
  pc = "Initialize" /\ fnOut.before.m_initialized =>
    fnOut.returned = TRUE /\ World = fnOut.before

UninitializedCallsAreInert ==
  /\ pc = "ProcessRule" /\ ~fnOut.before.m_initialized /\ IsJsRule(rule) =>
       /\ value = <<>>
       /\ ret = 0 => m_lastError = ErrJsNotInit
  /\ pc = "ProcessTemplate" /\ ~fnOut.before.m_initialized =>
       fnOut.out = rule /\ m_lastError = ErrJsNotInit
  /\ pc \in ProcessorCalls /\ ~fnOut.before.m_initialized =>
       m_jsEngine = fnOut.before.eng /\ ~fnOut.m_initialized
  /\ pc = "JsEngine::evaluate" /\ ~fnIn.eng.m_initialized =>
       fnIn.val = <<>> /\ fnIn.eng.m_lastError = ErrEngineNotInit

InstanceIsASingleton ==
  /\ pc = "Instance" =>
       /\ fnOut.returned = fnOut.s_instance /\ fnOut.s_instance # 0
       /\ fnOut.before.s_instance # 0 => World = fnOut.before
       /\ fnOut.before.s_instance = 0 =>
            /\ fnOut.returned = fnOut.before.objects + 1
            /\ ~fnOut.m_initialized /\ fnOut.m_engine = 0
            /\ m_jsEngine = JsEngine_JsEngine /\ m_lastError = ErrNone
  /\ pc \in ProcessorCalls \cup {"Initialize"} =>
       /\ fnOut.s_instance = fnOut.before.s_instance
       /\ fnOut.before.s_instance > fnOut.before.objects - 1
       /\ fnOut.before.m_initialized => fnOut.before.eng.m_initialized
  /\ pc = "ReleaseInstance" =>
       fnOut.s_instance = 0 /\ ~fnOut.m_initialized /\ fnOut.m_engine = 0

\* C30: In every sequence of Instance, Initialize, ProcessRule,
\* ProcessTemplate, SetBookInfo, SetChapterInfo and ReleaseInstance calls the
\* script engine is touched only while it is initialized; Initialize on an
\* initialized processor returns true and keeps the engine and its variables;
\* before Initialize a rule whose script stage is reached leaves no result
\* and the last error JS engine not initialized, a template is returned
\* unchanged, and evaluate on an engine that is shut down returns the empty
\* string; Instance returns the same object until ReleaseInstance, and the
\* object made after it starts uninitialized, with no engine and no variable.
C30_EngineLifecycle ==
  /\ EngineUsedOnlyWhenInitialized
  /\ InitializeIsIdempotent
  /\ UninitializedCallsAreInert
  /\ InstanceIsASingleton

\* Initialize is called again on the second object, which is initialized and
\* holds the chapter title
C30_Witness ==
  /\ pc = "Initialize" /\ fnOut.before.m_initialized /\ fnOut.returned = TRUE
  /\ fnOut.s_instance = 2 /\ m_jsEngine.title = Str(ItemA)


====
